---- MODULE Spec2Model ----
(***************************************************************************)
(* Model of the transport layer of n8n-nodes-corda:                        *)
(*   - ConnectionPool   (src/nodes/Corda/transport/cordaRpcClient.ts,      *)
(*                       lines 640-804)                                    *)
(*   - ObservableManager (src/nodes/Corda/transport/observableManager.ts,  *)
(*                       lines 102-267)                                    *)
(* Both run on a single-threaded event loop: the code between two awaits   *)
(* is one atomic step.  A continuation whose promise is already resolved   *)
(* is a microtask: it runs before the loop takes the next timer or I/O     *)
(* callback, but other microtasks, among them a caller's own code, may run *)
(* before it.                                                              *)
(*                                                                         *)
(* Time is counted in ticks of 100 ms (the pool's retry sleep).  The code  *)
(* reads the clock only in differences (Date.now() - startTime,            *)
(* now - conn.lastUsed), so the model keeps those differences: the time    *)
(* elapsed since acquire() began, the time left of a sleep and the age of  *)
(* a slot's lastUsed, each capped just above the threshold it is compared  *)
(* with.                                                                   *)
(***************************************************************************)
EXTENDS Integers, Sequences, FiniteSets, TLC

\* ------------------------------------------------------------------ bounds
NumTasks == 2           \* concurrent callers of the pool
MaxClients == 2         \* connections the pool may create in one run
MaxMinSize == 1         \* config.minSize ranges over 0..MaxMinSize
MaxMaxSize == 2         \* config.maxSize ranges over 1..MaxMaxSize
MaxAcquireTimeout == 2  \* config.acquireTimeout ranges over 0..MaxAcquireTimeout
MaxIdleTimeout == 1     \* config.idleTimeout ranges over 1..MaxIdleTimeout
MaxSockets == 6         \* sockets one ObservableManager may create in one run
MaxConnects == 2        \* connect() calls made by the manager's owner in one run
MaxSubs == 2            \* subscribe() calls in one run
MaxCalls == 5           \* calls on one VaultQueryBuilder in one run
MaxRefLen == 4          \* characters of a StateRef string
MaxFrames == 2          \* frames received in a run that keeps the event logs
MaxInFlight == 2        \* requests one CordaRpcClient has in flight at once

\* ------------------------------------------------------- program constants
SleepTicks == 1             \* setTimeout(resolve, 100): one tick
maxReconnectAttempts == 5

Tasks == 1..NumTasks
NoClient == 0

\* An optional value: <<>> for undefined, <<v>> for the value v.
Undefined == <<>>
Some(v) == <<v>>

VARIABLES
    \* ---- ConnectionPool
    config,          \* this.config: minSize, maxSize, idleTimeout, acquireTimeout
    connections,     \* this.connections: sequence of [client, inUse, age], where
                     \* age is Date.now() - lastUsed
    cleanupInterval, \* this.cleanupInterval # null
    nClients,        \* clients pushed so far (the next client is nClients + 1)
    closedClients,   \* clients on which close() has been called
    pc,              \* per caller: its position in acquire()/withConnection()
    elapsed,         \* per caller: Date.now() - startTime of its acquire()
    sleepLeft,       \* per caller: ticks left of its retry sleep
    cli,             \* per caller: the client acquire() returned to it
    initState,       \* initialize(): "none", "running", "done"
    initProbes,      \* createConnection() calls of initialize() still probing
    shutdownPc,      \* shutdown(): "none" or "closing" (awaiting Promise.all)
    exh,             \* history: caller is in an acquire() during all of which the
                     \* pool was at maxSize with every slot in use
    raced,           \* history: raced[t] holds when shutdown() was called while t's
                     \* current acquire() was suspended (kept when recording)
    last,            \* history: what the latest step did
    \* ---- ObservableManager
    websocket,        \* this.websocket: 0 for null, else the socket's number
    sockState,        \* per socket: "unused", "connecting", "open", "closing", "closed"
    reconnectAttempts,\* this.reconnectAttempts
    timers,           \* pending reconnect setTimeout callbacks
    subscriptions,    \* this.subscriptions: the ids in the map
    configs,          \* per id: the SubscriptionConfig its event stream filters by
    observers,        \* the ids whose callback is attached to this.eventSubject
    nSubs,            \* subscribe() calls so far (ids are never reused)
    stopped,          \* this.eventSubject has completed
    connects,         \* connect() calls made by the owner so far
    terminal,         \* history: disconnect() was called and connect() not since
    sinceOpen,        \* history: reconnects scheduled since the latest socket open
    obsLast,          \* history: what the latest manager step did
    out,              \* history: what the latest manager step received, which
                      \* callbacks it invoked and whether it sent a control frame
    \* ---- VaultQueryBuilder
    criteria,         \* this.criteria: the cell of the object it refers to
    criteriaObjs,     \* per cell: a VaultQueryCriteria object
    paging,           \* this.paging: the cell of the object it refers to
    pagingObjs,       \* per cell: a PageSpecification object
    sorting,          \* this.sorting: the cell of the array it refers to
    sortingObjs,      \* per cell: a SortColumn array
    contractStateType,\* this.contractStateType
    spec,             \* the VaultQuerySpec the latest build() returned
    atBuild,          \* history: what that spec showed when build() returned
    qLast,            \* history: the latest builder call
    qArg,             \* history: the argument of that call
    qCalls,           \* builder calls so far
    \* ---- CordaRpcClient
    connected,        \* this.isConnected
    inFlight,         \* per request slot: the call awaiting its HTTP response
    probed,           \* history: the latest testConnection()/close() to finish
                      \* was a testConnection() whose probe succeeded
    cLast,            \* history: what the latest client step did
    \* ---- event logs of the ObservableManager
    recording,        \* history: which of the history logs this run keeps: "none",
                      \* "events" (arrived, calls), "race" (raced), "reconnect" (survived)
    arrived,          \* history: the frames received, in arrival order
    calls,            \* history: the callback invocations <<id, frame number>>,
                      \* in the order in which they were made
    survived,         \* history: the ids that were attached when a socket closed
    \* ---- one call of toRpcQueryCriteria
    rpcIn,            \* the VaultQuerySpec passed as argument
    rpcOut,           \* Undefined before the call returns, then Some(returned object)
    \* ---- one vault update reaching a CordaTrigger node
    trigIn,           \* the node's parameters and the data of the event
    trigOut,          \* "none" before the event arrives, then "emitted" or "dropped"
    \* ---- one call of parseStateRef and of the functions around it
    srIn,             \* the string passed as argument
    srOut             \* what parseStateRef, isValidStateRef and the way back returned

poolVars == <<config, connections, cleanupInterval, nClients, closedClients,
              pc, elapsed, sleepLeft, cli, initState, initProbes, shutdownPc,
              exh, raced, last>>
obsVars == <<websocket, sockState, reconnectAttempts, timers, subscriptions, configs,
             observers, nSubs, stopped, connects, terminal, sinceOpen, obsLast, out>>
queryVars == <<criteria, criteriaObjs, paging, pagingObjs, sorting, sortingObjs,
               contractStateType, spec, atBuild, qLast, qArg, qCalls>>
clientVars == <<connected, inFlight, probed, cLast>>
logVars == <<recording, arrived, calls, survived>>
compileVars == <<rpcIn, rpcOut>>
triggerVars == <<trigIn, trigOut>>
refVars == <<srIn, srOut>>
vars == <<poolVars, obsVars, queryVars, clientVars, logVars, compileVars, triggerVars, refVars>>

\* ============================================================ ConnectionPool

\* The configurations a pool is constructed with (constructor, lines 646-653).
PoolConfigs ==
    { [minSize |-> m, maxSize |-> x, idleTimeout |-> i, acquireTimeout |-> a] :
        m \in 0..MaxMinSize, x \in 1..MaxMaxSize,
        i \in 1..MaxIdleTimeout, a \in 0..MaxAcquireTimeout }

\* PooledConnection as createConnection() pushes it (lines 678-683); createdAt is
\* written once and never read, and is left out.
PooledConnection(c) == [client |-> c, inUse |-> FALSE, age |-> 0]

\* Array.prototype.findIndex, 1-based; 0 when nothing matches.  hit[i] is the
\* callback's result on element i.
FindIndex(hit) ==
    IF \E i \in 1..Len(hit) : hit[i]
    THEN CHOOSE i \in 1..Len(hit) : hit[i] /\ \A j \in 1..(i - 1) : ~hit[j]
    ELSE 0

\* Array.prototype.splice(i, 1).
RemoveAt(conns, i) ==
    [j \in 1..(Len(conns) - 1) |-> IF j < i THEN conns[j] ELSE conns[j + 1]]

Clients(conns) == { conns[i].client : i \in 1..Len(conns) }

Min(a, b) == IF a < b THEN a ELSE b

\* getStats(), lines 776-789.
getStats ==
    LET active == Cardinality({ i \in 1..Len(connections) : connections[i].inUse })
    IN [total |-> Len(connections), active |-> active,
        idle |-> Len(connections) - active, maxSize |-> config.maxSize]

\* The pool is at maxSize and every tracked slot is in use.
Exhausted(conns) ==
    /\ Len(conns) = config.maxSize
    /\ \A i \in 1..Len(conns) : conns[i].inUse

\* A continuation is queued as a microtask: acquire() after createConnection()
\* returned (line 705), or shutdown() after Promise.all over close() promises,
\* which are resolved from the start (line 802).  Timers and I/O callbacks wait.
MicrotaskPending ==
    \/ \E t \in Tasks : pc[t] \in {"created", "notCreated"}
    \/ shutdownPc = "closing"

InAcquire(p) == p \in {"probing", "created", "notCreated", "sleeping"}

\* History kept by every pool step.  result is how acquire()/withConnection()
\* settled in this step, if it did; evicted is how many slots a cleanup removed.  exh[t] holds while t is inside one acquire()
\* call and the pool has been exhausted ever since that call began.
Track(op, t, c, res) ==
    /\ last' = [op |-> op, task |-> t, client |-> c, result |-> res,
                evicted |-> IF op = "cleanup"
                            THEN Len(connections) - Len(connections') ELSE 0]
    /\ exh' = [u \in Tasks |->
                 /\ InAcquire(pc'[u])
                 /\ Exhausted(connections')
                 /\ (exh[u] \/ ~InAcquire(pc[u]))]
    /\ raced' = IF recording = "race"
                THEN [u \in Tasks |->
                        /\ pc[u] # "idle"
                        /\ pc'[u] # "idle"
                        /\ (raced[u] \/ (op = "shutdown" /\ InAcquire(pc[u])))]
                ELSE raced

\* ---- acquire(), lines 690-717

\* (mutant of AcquireTimeLeft: the deadline is never checked)
AcquireTimeLeft_NoDeadline(sinceStart) == TRUE

\* Line 693: the loop condition, on Date.now() - startTime.
AcquireTimeLeft(sinceStart) == sinceStart < config.acquireTimeout

\* Line 695: the predicate of connections.find().
IsAvailable(conn) == ~conn.inUse

\* Line 703: may the pool grow?
BelowMax == Len(connections) < config.maxSize

\* One run of the loop from its condition to the next await, return or throw
\* (lines 693-716).  sinceStart is Date.now() - startTime.
AcquireLoop(t, sinceStart) ==
    IF ~AcquireTimeLeft(sinceStart)
    THEN \* line 716: throw
         /\ pc' = [pc EXCEPT ![t] = "idle"]
         /\ elapsed' = [elapsed EXCEPT ![t] = 0]
         /\ UNCHANGED <<connections, cli, sleepLeft>>
         /\ Track("acquireFailed", t, NoClient, "poolTimeout")
    ELSE LET i == FindIndex([k \in 1..Len(connections) |-> IsAvailable(connections[k])]) IN
         IF i # 0
         THEN \* lines 696-700
              /\ connections' = [connections EXCEPT ![i].inUse = TRUE, ![i].age = 0]
              /\ pc' = [pc EXCEPT ![t] = "holding"]
              /\ cli' = [cli EXCEPT ![t] = connections[i].client]
              /\ elapsed' = [elapsed EXCEPT ![t] = 0]
              /\ UNCHANGED sleepLeft
              /\ Track("acquired", t, connections[i].client, "none")
         ELSE IF BelowMax
         THEN \* line 704: createConnection() is called and awaits its probe
              /\ pc' = [pc EXCEPT ![t] = "probing"]
              /\ elapsed' = [elapsed EXCEPT ![t] = sinceStart]
              /\ UNCHANGED <<connections, cli, sleepLeft>>
              /\ Track("probe", t, NoClient, "none")
         ELSE \* line 713
              /\ pc' = [pc EXCEPT ![t] = "sleeping"]
              /\ elapsed' = [elapsed EXCEPT ![t] = sinceStart]
              /\ sleepLeft' = [sleepLeft EXCEPT ![t] = SleepTicks]
              /\ UNCHANGED <<connections, cli>>
              /\ Track("sleep", t, NoClient, "none")

\* A caller calls acquire(), directly or through withConnection() (line 736); the
\* call runs up to its first await.
StartAcquire(t) ==
    /\ pc[t] = "idle"
    /\ AcquireLoop(t, 0)
    /\ UNCHANGED <<config, cleanupInterval, nClients, closedClients,
                   initState, initProbes, shutdownPc>>
    /\ UNCHANGED <<obsVars, queryVars, clientVars, logVars, compileVars, triggerVars, refVars>>

\* createConnection() resumes after client.testConnection() (lines 675-685):
\* a successful probe pushes the connection, a failed one pushes nothing.
ProbeDone(t, ok) ==
    /\ pc[t] = "probing"
    /\ ~MicrotaskPending
    /\ IF ok
       THEN /\ nClients < MaxClients
            /\ connections' = Append(connections, PooledConnection(nClients + 1))
            /\ nClients' = nClients + 1
            /\ pc' = [pc EXCEPT ![t] = "created"]
            /\ Track("pushed", t, nClients + 1, "none")
       ELSE /\ pc' = [pc EXCEPT ![t] = "notCreated"]
            /\ UNCHANGED <<connections, nClients>>
            /\ Track("probeFailed", t, NoClient, "none")
    /\ UNCHANGED <<config, cleanupInterval, closedClients, elapsed, sleepLeft, cli,
                   initState, initProbes, shutdownPc>>
    /\ UNCHANGED <<obsVars, queryVars, clientVars, logVars, compileVars, triggerVars, refVars>>

\* acquire() resumes after `await this.createConnection()` (lines 705-713).
AfterCreate(t) ==
    /\ pc[t] \in {"created", "notCreated"}
    /\ IF Len(connections) > 0
       THEN LET n == Len(connections) IN
            /\ connections' = [connections EXCEPT ![n].inUse = TRUE]
            /\ pc' = [pc EXCEPT ![t] = "holding"]
            /\ cli' = [cli EXCEPT ![t] = connections[n].client]
            /\ elapsed' = [elapsed EXCEPT ![t] = 0]
            /\ UNCHANGED sleepLeft
            /\ Track("acquired", t, connections[n].client, "none")
       ELSE /\ pc' = [pc EXCEPT ![t] = "sleeping"]
            /\ sleepLeft' = [sleepLeft EXCEPT ![t] = SleepTicks]
            /\ UNCHANGED <<connections, cli, elapsed>>
            /\ Track("sleep", t, NoClient, "none")
    /\ UNCHANGED <<config, cleanupInterval, nClients, closedClients,
                   initState, initProbes, shutdownPc>>
    /\ UNCHANGED <<obsVars, queryVars, clientVars, logVars, compileVars, triggerVars, refVars>>

\* The retry sleep of line 713 is over and the loop runs again.
AcquireWake(t) ==
    /\ pc[t] = "sleeping"
    /\ sleepLeft[t] = 0
    /\ ~MicrotaskPending
    /\ AcquireLoop(t, elapsed[t])
    /\ UNCHANGED <<config, cleanupInterval, nClients, closedClients,
                   initState, initProbes, shutdownPc>>
    /\ UNCHANGED <<obsVars, queryVars, clientVars, logVars, compileVars, triggerVars, refVars>>

\* ---- release(), lines 722-728
\* (mutant of release: an unknown client frees the first slot)
release_FirstSlot(conns, client) ==
    LET i == FindIndex([k \in 1..Len(conns) |-> conns[k].client = client]) IN
    IF i # 0
    THEN [conns EXCEPT ![i].inUse = FALSE, ![i].age = 0]
    ELSE IF Len(conns) > 0 THEN [conns EXCEPT ![1].inUse = FALSE, ![1].age = 0]
    ELSE conns

release(conns, client) ==
    LET i == FindIndex([k \in 1..Len(conns) |-> conns[k].client = client]) IN
    IF i # 0
    THEN [conns EXCEPT ![i].inUse = FALSE, ![i].age = 0]
    ELSE conns

\* A caller of acquire() gives its client back.
ReleaseCall(t) ==
    /\ pc[t] = "holding"
    /\ connections' = release(connections, cli[t])
    /\ pc' = [pc EXCEPT ![t] = "idle"]
    /\ cli' = [cli EXCEPT ![t] = NoClient]
    /\ UNCHANGED <<config, cleanupInterval, nClients, closedClients, elapsed,
                   sleepLeft, initState, initProbes, shutdownPc>>
    /\ Track("released", t, cli[t], "none")
    /\ UNCHANGED <<obsVars, queryVars, clientVars, logVars, compileVars, triggerVars, refVars>>

\* release() is called with a client the pool does not track: one it evicted or
\* dropped, or one it never created (MaxClients + 1).
ReleaseUntracked(c) ==
    /\ c \notin Clients(connections)
    /\ connections' = release(connections, c)
    /\ UNCHANGED <<config, cleanupInterval, nClients, closedClients, pc, elapsed,
                   sleepLeft, cli, initState, initProbes, shutdownPc>>
    /\ Track("released", 0, c, "none")
    /\ UNCHANGED <<obsVars, queryVars, clientVars, logVars, compileVars, triggerVars, refVars>>

\* (mutant of WithConnectionSettle: release after the await instead of in finally)
WithConnectionSettle_NoFinally(t, r) ==
    /\ pc[t] = "holding"
    /\ connections' = IF r = "resolved" THEN release(connections, cli[t]) ELSE connections
    /\ pc' = [pc EXCEPT ![t] = "idle"]
    /\ cli' = [cli EXCEPT ![t] = NoClient]
    /\ UNCHANGED <<config, cleanupInterval, nClients, closedClients, elapsed,
                   sleepLeft, initState, initProbes, shutdownPc>>
    /\ Track(IF r = "resolved" THEN "opResolved" ELSE "opRejected", t, cli[t], r)
    /\ UNCHANGED <<obsVars, queryVars, clientVars, logVars, compileVars, triggerVars, refVars>>

\* ---- withConnection(), lines 733-742.  The caller came through acquire() at
\* line 736 and its operation has been running since; now the operation settles
\* with r, the finally block runs, and withConnection() settles.
WithConnectionSettle(t, r) ==
    /\ pc[t] = "holding"
    /\ connections' = release(connections, cli[t])
    /\ pc' = [pc EXCEPT ![t] = "idle"]
    /\ cli' = [cli EXCEPT ![t] = NoClient]
    /\ UNCHANGED <<config, cleanupInterval, nClients, closedClients, elapsed,
                   sleepLeft, initState, initProbes, shutdownPc>>
    /\ Track(IF r = "resolved" THEN "opResolved" ELSE "opRejected", t, cli[t], r)
    /\ UNCHANGED <<obsVars, queryVars, clientVars, logVars, compileVars, triggerVars, refVars>>

\* ---- initialize(), lines 662-668: minSize createConnection() calls in parallel.
initialize ==
    /\ initState = "none"
    /\ initProbes' = config.minSize
    /\ initState' = IF config.minSize = 0 THEN "done" ELSE "running"
    /\ UNCHANGED <<config, connections, cleanupInterval, nClients, closedClients,
                   pc, elapsed, sleepLeft, cli, shutdownPc>>
    /\ Track("initialize", 0, NoClient, "none")
    /\ UNCHANGED <<obsVars, queryVars, clientVars, logVars, compileVars, triggerVars, refVars>>

\* One createConnection() of initialize() resumes after its probe (lines 675-685).
InitProbeDone(ok) ==
    /\ initProbes > 0
    /\ ~MicrotaskPending
    /\ initProbes' = initProbes - 1
    /\ initState' = IF initProbes = 1 THEN "done" ELSE initState
    /\ IF ok
       THEN /\ nClients < MaxClients
            /\ connections' = Append(connections, PooledConnection(nClients + 1))
            /\ nClients' = nClients + 1
       ELSE UNCHANGED <<connections, nClients>>
    /\ UNCHANGED <<config, cleanupInterval, closedClients, pc, elapsed, sleepLeft,
                   cli, shutdownPc>>
    /\ Track(IF ok THEN "pushed" ELSE "probeFailed", 0,
             IF ok THEN nClients + 1 ELSE NoClient, "none")
    /\ UNCHANGED <<obsVars, queryVars, clientVars, logVars, compileVars, triggerVars, refVars>>

\* ---- cleanup(), lines 756-771

\* (mutant of AboveMin: off by one)
AboveMin_OffByOne(conns) == Len(conns) >= config.minSize

\* Line 761: the loop condition.
AboveMin(conns) == Len(conns) > config.minSize

\* (mutant of IdleExpired: the inUse flag is not looked at)
IdleExpired_IgnoreInUse(conn) == conn.age > config.idleTimeout

\* Lines 762-764: the predicate of connections.findIndex(), on now - lastUsed.
IdleExpired(conn) == ~conn.inUse /\ conn.age > config.idleTimeout

\* The while loop of lines 761-770: what is left in the list.
RECURSIVE CleanupLoop(_)
CleanupLoop(conns) ==
    IF AboveMin(conns)
    THEN LET idleIndex == FindIndex([k \in 1..Len(conns) |-> IdleExpired(conns[k])]) IN
         IF idleIndex = 0 THEN conns ELSE CleanupLoop(RemoveAt(conns, idleIndex))
    ELSE conns

\* The setInterval callback of startCleanup() (lines 747-751) fires; close() is
\* called on every removed client (line 769).
cleanup ==
    /\ cleanupInterval
    /\ ~MicrotaskPending
    /\ connections' = CleanupLoop(connections)
    /\ closedClients' = closedClients \cup (Clients(connections) \ Clients(connections'))
    /\ UNCHANGED <<config, cleanupInterval, nClients, pc, elapsed, sleepLeft, cli,
                   initState, initProbes, shutdownPc>>
    /\ Track("cleanup", 0, NoClient, "none")
    /\ UNCHANGED <<obsVars, queryVars, clientVars, logVars, compileVars, triggerVars, refVars>>

\* ---- shutdown(), lines 794-803
\* Up to the await: the timer is cleared and close() is called on every client.
shutdown ==
    /\ shutdownPc = "none"
    /\ cleanupInterval' = FALSE
    /\ closedClients' = closedClients \cup Clients(connections)
    /\ shutdownPc' = "closing"
    /\ UNCHANGED <<config, connections, nClients, pc, elapsed, sleepLeft, cli,
                   initState, initProbes>>
    /\ Track("shutdown", 0, NoClient, "none")
    /\ UNCHANGED <<obsVars, queryVars, clientVars, logVars, compileVars, triggerVars, refVars>>

\* (mutant of ShutdownFinish: the list is not cleared)
ShutdownFinish_KeepsConnections ==
    /\ shutdownPc = "closing"
    /\ shutdownPc' = "none"
    /\ UNCHANGED <<config, connections, cleanupInterval, nClients, closedClients, pc,
                   elapsed, sleepLeft, cli, initState, initProbes>>
    /\ Track("shutdownDone", 0, NoClient, "none")
    /\ UNCHANGED <<obsVars, queryVars, clientVars, logVars, compileVars, triggerVars, refVars>>

\* After `await Promise.all(closePromises)`: line 802.
ShutdownFinish ==
    /\ shutdownPc = "closing"
    /\ connections' = <<>>
    /\ shutdownPc' = "none"
    /\ UNCHANGED <<config, cleanupInterval, nClients, closedClients, pc, elapsed,
                   sleepLeft, cli, initState, initProbes>>
    /\ Track("shutdownDone", 0, NoClient, "none")
    /\ UNCHANGED <<obsVars, queryVars, clientVars, logVars, compileVars, triggerVars, refVars>>

\* 100 ms pass: every difference the code reads from the clock grows by one tick.
Tick ==
    /\ ~MicrotaskPending
    /\ elapsed' = [t \in Tasks |->
                     IF InAcquire(pc[t])
                     THEN Min(elapsed[t] + 1, config.acquireTimeout)
                     ELSE elapsed[t]]
    /\ sleepLeft' = [t \in Tasks |-> IF sleepLeft[t] > 0 THEN sleepLeft[t] - 1 ELSE 0]
    /\ connections' = [i \in 1..Len(connections) |->
                         [connections[i] EXCEPT
                            !.age = Min(connections[i].age + 1, config.idleTimeout + 1)]]
    /\ UNCHANGED <<config, cleanupInterval, nClients, closedClients, pc, cli,
                   initState, initProbes, shutdownPc>>
    /\ Track("tick", 0, NoClient, "none")
    /\ UNCHANGED <<obsVars, queryVars, clientVars, logVars, compileVars, triggerVars, refVars>>

\* ========================================================= ObservableManager

Sockets == 1..MaxSockets
NoSocket == 0
SubIds == 1..MaxSubs

\* CordaEventType, lines 20-27: the type the tests filter on and one other.
EventTypes == {"VAULT_UPDATE", "STATE_MACHINE_UPDATE"}
Contracts == {"X", "Y"}

\* SubscriptionConfig, lines 92-97.
Configs == [type : EventTypes, contractStateType : {Undefined, Some("X")}]
NoConfig == [type |-> "", contractStateType |-> Undefined]

\* Inbound frames: the text of an event, whole (ok) or damaged so that it does
\* not parse.  Only a vault update carries produced and consumed states.  Two
\* more texts parse without having the shape of a CordaEvent (lines 32-38): the
\* text `null`, and a vault update without data.produced and data.consumed.
Frames ==
    { f \in [ok : BOOLEAN, shape : {"event"}, type : EventTypes,
             contracts : SUBSET Contracts] :
        f.type # "VAULT_UPDATE" => f.contracts = {} }
    \cup {[ok |-> TRUE, shape |-> "null", type |-> "", contracts |-> {}],
          [ok |-> TRUE, shape |-> "noStates", type |-> "VAULT_UPDATE",
           contracts |-> {}]}
NoFrame == [ok |-> FALSE, shape |-> "event", type |-> "", contracts |-> {}]

\* A step that receives nothing, invokes no callback and sends nothing.
NoOut == [frame |-> NoFrame, socket |-> NoSocket, sent |-> FALSE, invoked |-> {},
          id |-> 0]

\* The sockets created so far are 1..Created.
Created == Cardinality({ s \in Sockets : sockState[s] # "unused" })

\* isConnected(), lines 251-253.
isConnected == websocket # NoSocket /\ sockState[websocket] = "open"

\* Lines 124-128 of connect(): a new socket replaces this.websocket; the handlers
\* of lines 130-150 stay attached to the socket for as long as it lives.
NewSocket ==
    /\ Created < MaxSockets
    /\ websocket' = Created + 1
    /\ sockState' = [sockState EXCEPT ![Created + 1] = "connecting"]

\* A caller calls connect() (lines 118-152).
connect ==
    /\ connects < MaxConnects
    /\ connects' = connects + 1
    /\ NewSocket
    /\ terminal' = FALSE
    /\ obsLast' = "connect"
    /\ out' = NoOut
    /\ UNCHANGED <<reconnectAttempts, timers, subscriptions, configs, observers, nSubs, stopped, sinceOpen>>
    /\ UNCHANGED <<poolVars, queryVars, clientVars, logVars, compileVars, triggerVars, refVars>>

\* (mutant of CanReconnect: off by one)
CanReconnect_OffByOne == reconnectAttempts <= maxReconnectAttempts

\* Line 158.
CanReconnect == reconnectAttempts < maxReconnectAttempts

\* handleDisconnect(), lines 157-166.
handleDisconnect ==
    IF CanReconnect
    THEN /\ reconnectAttempts' = reconnectAttempts + 1
         /\ timers' = timers + 1
         /\ sinceOpen' = sinceOpen + 1
    ELSE UNCHANGED <<reconnectAttempts, timers, sinceOpen>>

\* (mutant of SocketOpen: the counter is not reset)
SocketOpen_NoReset(s) ==
    /\ sockState[s] = "connecting"
    /\ sockState' = [sockState EXCEPT ![s] = "open"]
    /\ sinceOpen' = 0
    /\ obsLast' = "open"
    /\ out' = NoOut
    /\ UNCHANGED <<websocket, reconnectAttempts, timers, subscriptions, configs,
                   observers, nSubs, stopped, connects, terminal>>
    /\ UNCHANGED <<poolVars, queryVars, clientVars, logVars, compileVars, triggerVars, refVars>>

\* The 'open' handler, lines 130-133.
SocketOpen(s) ==
    /\ sockState[s] = "connecting"
    /\ sockState' = [sockState EXCEPT ![s] = "open"]
    /\ reconnectAttempts' = 0
    /\ sinceOpen' = 0
    /\ obsLast' = "open"
    /\ out' = NoOut
    /\ UNCHANGED <<websocket, timers, subscriptions, configs, observers, nSubs, stopped, connects, terminal>>
    /\ UNCHANGED <<poolVars, queryVars, clientVars, logVars, compileVars, triggerVars, refVars>>

\* The handshake fails: the socket emits 'error' (lines 144-146: the connect()
\* promise is rejected) and then 'close' (lines 148-150).
SocketError(s) ==
    /\ sockState[s] = "connecting"
    /\ sockState' = [sockState EXCEPT ![s] = "closed"]
    /\ handleDisconnect
    /\ obsLast' = "close"
    /\ out' = NoOut
    /\ UNCHANGED <<websocket, subscriptions, configs, observers, nSubs, stopped, connects, terminal>>
    /\ UNCHANGED <<poolVars, queryVars, clientVars, logVars, compileVars, triggerVars, refVars>>

\* (mutant of SocketClose: the close handler drops the subscriptions)
SocketClose_DropsSubscriptions(s) ==
    /\ sockState[s] \in {"open", "closing"}
    /\ sockState' = [sockState EXCEPT ![s] = "closed"]
    /\ handleDisconnect
    /\ obsLast' = "close"
    /\ out' = NoOut
    /\ subscriptions' = {}
    /\ observers' = {}
    /\ UNCHANGED <<websocket, configs, nSubs, stopped, connects, terminal>>
    /\ survived' = IF recording = "reconnect" THEN survived \cup observers ELSE survived
    /\ UNCHANGED <<recording, arrived, calls>>
    /\ UNCHANGED <<poolVars, queryVars, clientVars, compileVars, triggerVars, refVars>>

\* The 'close' handler, lines 148-150: an open socket is closed by the peer or the
\* network, or a socket closed by disconnect() finishes closing.
SocketClose(s) ==
    /\ sockState[s] \in {"open", "closing"}
    /\ sockState' = [sockState EXCEPT ![s] = "closed"]
    /\ handleDisconnect
    /\ obsLast' = "close"
    /\ out' = NoOut
    /\ UNCHANGED <<websocket, subscriptions, configs, observers, nSubs, stopped, connects, terminal>>
    /\ survived' = IF recording = "reconnect" THEN survived \cup observers ELSE survived
    /\ UNCHANGED <<recording, arrived, calls>>
    /\ UNCHANGED <<poolVars, queryVars, clientVars, compileVars, triggerVars, refVars>>

\* The setTimeout callback of lines 160-164 fires: this.connect().
ReconnectTimer ==
    /\ timers > 0
    /\ timers' = timers - 1
    /\ NewSocket
    /\ obsLast' = "reconnect"
    /\ out' = NoOut
    /\ UNCHANGED <<reconnectAttempts, subscriptions, configs, observers, nSubs, stopped, connects, terminal,
                   sinceOpen>>
    /\ UNCHANGED <<poolVars, queryVars, clientVars, logVars, compileVars, triggerVars, refVars>>

\* getEventStream(), lines 191-204: the filters a subscription's stream applies.
\* (mutant of Matches: the contract filter is applied to every event type)
Matches_FilterEveryType(cfg, event) ==
    /\ event.type = cfg.type
    /\ (cfg.contractStateType # Undefined)
          => \E c \in event.contracts : cfg.contractStateType = Some(c)

\* getEventStream(), lines 191-204.  event.contracts are the contracts of the
\* event's produced and consumed states.
Matches(cfg, event) ==
    /\ event.type = cfg.type
    /\ IF cfg.contractStateType # Undefined /\ event.type = "VAULT_UPDATE"
       THEN \E c \in event.contracts : cfg.contractStateType = Some(c)
       ELSE TRUE

\* getEventStream(), lines 191-204: a filter function throws a TypeError, on
\* `event.type` (line 193) when the event is null, and on the spread of
\* data.produced (line 197) when the event got past the type filter, the
\* subscription has a contractStateType and the vault update has no states.
Throws(cfg, event) ==
    \/ event.shape = "null"
    \/ /\ event.shape = "noStates"
       /\ event.type = cfg.type
       /\ cfg.contractStateType # Undefined
       /\ event.type = "VAULT_UPDATE"

\* (mutant of Deliveries: every callback is invoked twice)
Deliveries_Twice(ids, k) ==
    LET order == SelectSeq([i \in 1..MaxSubs |-> i], LAMBDA id : id \in ids)
    IN [i \in 1..(2 * Len(order)) |-> <<order[(i + 1) \div 2], k>>]

\* Subject.next() calls the attached callbacks one after the other, in the order
\* in which they were attached, each with the event of frame number k.
Deliveries(ids, k) ==
    LET order == SelectSeq([i \in 1..MaxSubs |-> i], LAMBDA id : id \in ids)
    IN [i \in 1..Len(order) |-> <<order[i], k>>]

\* (mutant of Parses: the handler passes on whatever it received)
Parses_Everything(frame) == TRUE

\* JSON.parse(data.toString()) of line 137 returns instead of throwing.
Parses(frame) == frame.ok

\* The 'message' handler, lines 135-142, of any socket the manager created that is
\* open: a frame that parses goes to eventSubject.next(), which calls the
\* callback of every attached subscription whose filters pass, unless the subject
\* has completed; one that does not parse is dropped in the catch.  A filter
\* that throws ends its own stream with that error: the callback is detached
\* from the subject without being invoked, its Subscription stays in the map,
\* and the streams of the other subscriptions go on.
Message(s, frame) ==
    /\ sockState[s] = "open"
    /\ out' = [frame |-> frame, socket |-> s, sent |-> FALSE, id |-> 0,
               invoked |-> IF Parses(frame) /\ ~stopped
                           THEN { id \in observers :
                                    /\ ~Throws(configs[id], frame)
                                    /\ Matches(configs[id], frame) }
                           ELSE {}]
    /\ observers' = IF Parses(frame) /\ ~stopped
                    THEN { id \in observers : ~Throws(configs[id], frame) }
                    ELSE observers
    /\ obsLast' = "message"
    /\ recording = "events" => Len(arrived) < MaxFrames
    /\ IF recording = "events"
       THEN /\ arrived' = Append(arrived, frame)
            /\ calls' = calls \o Deliveries(out'.invoked, Len(arrived'))
       ELSE UNCHANGED <<arrived, calls>>
    /\ UNCHANGED <<recording, survived>>
    /\ UNCHANGED <<websocket, sockState, reconnectAttempts, timers, subscriptions,
                   configs, nSubs, stopped, connects, terminal, sinceOpen>>
    /\ UNCHANGED <<poolVars, queryVars, clientVars, compileVars, triggerVars, refVars>>

\* sendSubscriptionRequest(), lines 209-218: whether the frame is sent.
sendSubscriptionRequest == websocket # NoSocket /\ sockState[websocket] = "open"

\* subscribe(), lines 171-186: the callback is attached to the filtered stream
\* (a completed subject attaches nothing), the subscription is stored under a
\* fresh id and the control frame is sent if the socket is open.
subscribe(cfg) ==
    /\ nSubs < MaxSubs
    /\ nSubs' = nSubs + 1
    /\ observers' = IF stopped THEN observers ELSE observers \cup {nSubs + 1}
    /\ subscriptions' = subscriptions \cup {nSubs + 1}
    /\ configs' = [configs EXCEPT ![nSubs + 1] = cfg]
    /\ out' = [NoOut EXCEPT !.sent = sendSubscriptionRequest]
    /\ obsLast' = "subscribe"
    /\ UNCHANGED <<websocket, sockState, reconnectAttempts, timers, stopped, connects,
                   terminal, sinceOpen>>
    /\ UNCHANGED <<poolVars, queryVars, clientVars, logVars, compileVars, triggerVars, refVars>>

\* (mutant of Detach: the callback stays attached)
Detach_Nothing(obs, ids) == obs

\* subscription.unsubscribe(), lines 226 and 236.
Detach(obs, ids) == obs \ ids

\* unsubscribe(), lines 223-229: nothing happens for an id the map does not hold.
unsubscribe(id) ==
    /\ IF id \in subscriptions
       THEN /\ observers' = Detach(observers, {id})
            /\ subscriptions' = subscriptions \ {id}
            /\ configs' = [configs EXCEPT ![id] = NoConfig]
       ELSE UNCHANGED <<observers, subscriptions, configs>>
    /\ out' = [NoOut EXCEPT !.id = id]
    /\ obsLast' = "unsubscribe"
    /\ UNCHANGED <<websocket, sockState, reconnectAttempts, timers, nSubs, stopped,
                   connects, terminal, sinceOpen>>
    /\ survived' = survived \ {id}
    /\ UNCHANGED <<recording, arrived, calls>>
    /\ UNCHANGED <<poolVars, queryVars, clientVars, compileVars, triggerVars, refVars>>

\* unsubscribeAll(), lines 234-239.
unsubscribeAll ==
    /\ observers' = Detach(observers, subscriptions)
    /\ subscriptions' = {}
    /\ configs' = [id \in SubIds |-> NoConfig]
    /\ out' = NoOut
    /\ obsLast' = "unsubscribeAll"
    /\ UNCHANGED <<websocket, sockState, reconnectAttempts, timers, nSubs, stopped,
                   connects, terminal, sinceOpen>>
    /\ survived' = {}
    /\ UNCHANGED <<recording, arrived, calls>>
    /\ UNCHANGED <<poolVars, queryVars, clientVars, compileVars, triggerVars, refVars>>

\* disconnect(), lines 258-266: unsubscribeAll() (lines 234-239), the event
\* subject completes, and websocket.close() starts the closing of a socket that is
\* connecting or open, whose 'close' event follows later.
disconnect ==
    /\ observers' = Detach(observers, subscriptions)
    /\ subscriptions' = {}
    /\ configs' = [id \in SubIds |-> NoConfig]
    /\ stopped' = TRUE
    /\ IF websocket # NoSocket
       THEN /\ sockState' = [sockState EXCEPT ![websocket] =
                               IF @ \in {"connecting", "open"} THEN "closing" ELSE @]
            /\ websocket' = NoSocket
       ELSE UNCHANGED <<websocket, sockState>>
    /\ terminal' = TRUE
    /\ out' = NoOut
    /\ obsLast' = "disconnect"
    /\ UNCHANGED <<reconnectAttempts, timers, nSubs, connects, sinceOpen>>
    /\ survived' = {}
    /\ UNCHANGED <<recording, arrived, calls>>
    /\ UNCHANGED <<poolVars, queryVars, clientVars, compileVars, triggerVars, refVars>>

\* ========================================================== VaultQueryBuilder
\* src/nodes/Corda/utils/vaultQueryUtils.ts, lines 96-272.  criteria, paging and
\* sorting are JavaScript objects: a field holds a reference, and two references
\* to one object see each other's writes.  The builder and the latest
\* VaultQuerySpec are the only holders of references, so two cells of each kind
\* are enough: a new object takes a cell the spec does not refer to, and a cell
\* nobody refers to any more is cleared.

Refs == {1, 2}
NoRef == 0
\* DEFAULT_PAGINATION, src/nodes/Corda/constants/x500.ts, lines 280-284.
DEFAULT_PAGINATION == [pageNumber |-> 1, pageSize |-> 200, maxPageSize |-> 10000]

Statuses == {"UNCONSUMED", "CONSUMED"}
StringLists == {<<"X">>, <<"Y">>}
OneStringList == {<<"X">>}
Timestamps == {"t1", "t2"}
TimeConditions ==
    {[type |-> "CONSUMED", predicate |-> [operator |-> "LESS_THAN", value |-> "t1"]]}
SoftLockingConditions == {[type |-> "UNLOCKED_ONLY"]}
RelevancyStatuses == {"RELEVANT"}
ContractStateTypes == {"X"}
SortAttributes == {"recordedTime"}
SortDirections == {"ASC", "DESC"}
PageNumbers == {0, 2}
PageSizes == {0, 50, DEFAULT_PAGINATION.maxPageSize, DEFAULT_PAGINATION.maxPageSize + 1}

\* `private criteria: VaultQueryCriteria = {}`, line 97; the fields of lines 27-39
\* that a builder method can set.
EmptyCriteria ==
    [status |-> Undefined, contractStateTypes |-> Undefined, stateRefs |-> Undefined,
     notary |-> Undefined, participants |-> Undefined, externalIds |-> Undefined,
     timeCondition |-> Undefined, softLockingCondition |-> Undefined,
     relevancyStatus |-> Undefined]

\* Lines 98-101 and 264-267.
DefaultPaging ==
    [pageNumber |-> DEFAULT_PAGINATION.pageNumber, pageSize |-> DEFAULT_PAGINATION.pageSize]

\* A new object goes to a cell the returned spec does not refer to.
Alloc(specRef) == IF specRef = 1 THEN 2 ELSE 1

\* The cells after `ref` has been given the value v: the cell the spec refers to
\* keeps its value, every other cell is unused and cleared to `empty`.
Store(objs, ref, v, specRef, empty) ==
    [r \in Refs |-> IF r = ref THEN v ELSE IF r = specRef THEN objs[r] ELSE empty]

\* History kept by every builder step.
QTrack(op, pn, ps, threw) ==
    /\ qLast' = [op |-> op, pageNumber |-> pn, pageSize |-> ps, threw |-> threw]
    /\ qCalls' = qCalls + 1

\* (mutant of SetCriterion: the other criteria fields are dropped)
SetCriterion_DropsOthers(field, value) ==
    /\ qCalls < MaxCalls
    /\ criteriaObjs' = [criteriaObjs EXCEPT ![criteria] =
                           [EmptyCriteria EXCEPT ![field] = Some(value)]]
    /\ UNCHANGED <<criteria, paging, pagingObjs, sorting, sortingObjs,
                   contractStateType, spec, atBuild>>
    /\ UNCHANGED <<poolVars, obsVars, clientVars, logVars, compileVars, triggerVars, refVars>>

\* this.criteria.<field> = value: a write into the object this.criteria refers to
\* (lines 109, 117, 125, 133, 141, 149, 157, 165-171, 179-185, 193-200, 208, 216).
SetCriterion(field, value) ==
    /\ qCalls < MaxCalls
    /\ criteriaObjs' = [criteriaObjs EXCEPT ![criteria] = [@ EXCEPT ![field] = Some(value)]]
    /\ UNCHANGED <<criteria, paging, pagingObjs, sorting, sortingObjs,
                   contractStateType, spec, atBuild>>
    /\ UNCHANGED <<poolVars, obsVars, clientVars, logVars, compileVars, triggerVars, refVars>>

withStatus(status) ==
    SetCriterion("status", status) /\ QTrack("withStatus", 0, 0, FALSE) /\ qArg' = status

withContractStateTypes(types) ==
    SetCriterion("contractStateTypes", types)
    /\ QTrack("withContractStateTypes", 0, 0, FALSE) /\ qArg' = types

withStateRefs(refs) ==
    SetCriterion("stateRefs", refs) /\ QTrack("withStateRefs", 0, 0, FALSE) /\ qArg' = refs

withNotary(notaries) ==
    SetCriterion("notary", notaries) /\ QTrack("withNotary", 0, 0, FALSE) /\ qArg' = notaries

withParticipants(participants) ==
    SetCriterion("participants", participants)
    /\ QTrack("withParticipants", 0, 0, FALSE) /\ qArg' = participants

withExternalIds(ids) ==
    SetCriterion("externalIds", ids) /\ QTrack("withExternalIds", 0, 0, FALSE) /\ qArg' = ids

withTimeCondition(condition) ==
    SetCriterion("timeCondition", condition)
    /\ QTrack("withTimeCondition", 0, 0, FALSE) /\ qArg' = condition

recordedAfter(timestamp) ==
    SetCriterion("timeCondition",
                 [type |-> "RECORDED",
                  predicate |-> [operator |-> "GREATER_THAN", value |-> timestamp]])
    /\ QTrack("recordedAfter", 0, 0, FALSE) /\ qArg' = timestamp

recordedBefore(timestamp) ==
    SetCriterion("timeCondition",
                 [type |-> "RECORDED",
                  predicate |-> [operator |-> "LESS_THAN", value |-> timestamp]])
    /\ QTrack("recordedBefore", 0, 0, FALSE) /\ qArg' = timestamp

\* (mutant of recordedBetween: a value field is left in the predicate)
recordedBetween_LeftoverValue(from, to) ==
    SetCriterion("timeCondition",
                 [type |-> "RECORDED",
                  predicate |-> [operator |-> "BETWEEN", value |-> from,
                                 from |-> from, to |-> to]])
    /\ QTrack("recordedBetween", 0, 0, FALSE) /\ qArg' = <<from, to>>

recordedBetween(from, to) ==
    SetCriterion("timeCondition",
                 [type |-> "RECORDED",
                  predicate |-> [operator |-> "BETWEEN", from |-> from, to |-> to]])
    /\ QTrack("recordedBetween", 0, 0, FALSE) /\ qArg' = <<from, to>>

withSoftLocking(condition) ==
    SetCriterion("softLockingCondition", condition)
    /\ QTrack("withSoftLocking", 0, 0, FALSE) /\ qArg' = condition

withRelevancyStatus(status) ==
    SetCriterion("relevancyStatus", status)
    /\ QTrack("withRelevancyStatus", 0, 0, FALSE) /\ qArg' = status

\* (mutant of PageSizeTooLarge: the maximum itself is refused)
PageSizeTooLarge_OffByOne(pageSize) == pageSize >= DEFAULT_PAGINATION.maxPageSize

\* Line 224.
PageSizeTooLarge(pageSize) == pageSize > DEFAULT_PAGINATION.maxPageSize

\* withPaging(), lines 223-229: throws before any write, or makes this.paging
\* refer to a new object.
withPaging(pageNumber, pageSize) ==
    /\ qCalls < MaxCalls
    /\ IF PageSizeTooLarge(pageSize)
       THEN /\ UNCHANGED <<paging, pagingObjs>>
            /\ QTrack("withPaging", pageNumber, pageSize, TRUE)
            /\ qArg' = <<pageNumber, pageSize>>
       ELSE /\ paging' = Alloc(spec.paging)
            /\ pagingObjs' = Store(pagingObjs, paging',
                                   [pageNumber |-> pageNumber, pageSize |-> pageSize],
                                   spec.paging, DefaultPaging)
            /\ QTrack("withPaging", pageNumber, pageSize, FALSE)
            /\ qArg' = <<pageNumber, pageSize>>
    /\ UNCHANGED <<criteria, criteriaObjs, sorting, sortingObjs, contractStateType,
                   spec, atBuild>>
    /\ UNCHANGED <<poolVars, obsVars, clientVars, logVars, compileVars, triggerVars, refVars>>

\* (mutant of Push: an entry of the same attribute is replaced)
Push_Deduplicated(array, column) ==
    IF \E i \in 1..Len(array) : array[i].sortAttribute = column.sortAttribute
    THEN [i \in 1..Len(array) |->
            IF array[i].sortAttribute = column.sortAttribute THEN column ELSE array[i]]
    ELSE Append(array, column)

\* Array.prototype.push, line 235.
Push(array, column) == Append(array, column)

\* orderBy(), lines 234-237: a push onto the array this.sorting refers to; the
\* direction argument is optional and defaults to 'ASC'.
orderBy(attribute, direction) ==
    /\ qCalls < MaxCalls
    /\ sortingObjs' = [sortingObjs EXCEPT ![sorting] =
                          Push(@, [sortAttribute |-> attribute,
                                   direction |-> IF direction = Undefined
                                                 THEN "ASC" ELSE direction[1]])]
    /\ QTrack("orderBy", 0, 0, FALSE)
    /\ qArg' = <<attribute, direction>>
    /\ UNCHANGED <<criteria, criteriaObjs, paging, pagingObjs, sorting,
                   contractStateType, spec, atBuild>>
    /\ UNCHANGED <<poolVars, obsVars, clientVars, logVars, compileVars, triggerVars, refVars>>

\* forContractState(), lines 242-245.
forContractState(stateType) ==
    /\ qCalls < MaxCalls
    /\ contractStateType' = Some(stateType)
    /\ QTrack("forContractState", 0, 0, FALSE)
    /\ qArg' = stateType
    /\ UNCHANGED <<criteria, criteriaObjs, paging, pagingObjs, sorting, sortingObjs,
                   spec, atBuild>>
    /\ UNCHANGED <<poolVars, obsVars, clientVars, logVars, compileVars, triggerVars, refVars>>

\* The values an object literal of build() shows to its reader.
SpecValue(sp, cObjs, pObjs, sObjs) ==
    [criteria |-> cObjs[sp.criteria],
     paging |-> pObjs[sp.paging],
     sorting |-> IF sp.sorting = NoRef THEN Undefined ELSE Some(sObjs[sp.sorting]),
     contractStateType |-> sp.contractStateType]

\* build(), lines 250-257: the returned object holds the builder's own references;
\* sorting is undefined when the array is empty.  The cells of an earlier spec
\* are no longer followed and are cleared.
build ==
    /\ qCalls < MaxCalls
    /\ spec' = [built |-> TRUE, criteria |-> criteria, paging |-> paging,
                sorting |-> IF Len(sortingObjs[sorting]) > 0 THEN sorting ELSE NoRef,
                contractStateType |-> contractStateType]
    /\ criteriaObjs' = Store(criteriaObjs, criteria, criteriaObjs[criteria], NoRef,
                             EmptyCriteria)
    /\ pagingObjs' = Store(pagingObjs, paging, pagingObjs[paging], NoRef,
                           DefaultPaging)
    /\ sortingObjs' = Store(sortingObjs, sorting, sortingObjs[sorting], NoRef, <<>>)
    /\ atBuild' = SpecValue(spec', criteriaObjs', pagingObjs', sortingObjs')
    /\ QTrack("build", 0, 0, FALSE)
    /\ qArg' = Undefined
    /\ UNCHANGED <<criteria, paging, sorting, contractStateType>>
    /\ UNCHANGED <<poolVars, obsVars, clientVars, logVars, compileVars, triggerVars, refVars>>

\* (mutant of reset: the sort columns are kept)
reset_KeepsSorting ==
    /\ qCalls < MaxCalls
    /\ criteria' = Alloc(spec.criteria)
    /\ criteriaObjs' = Store(criteriaObjs, criteria', EmptyCriteria, spec.criteria,
                             EmptyCriteria)
    /\ paging' = Alloc(spec.paging)
    /\ pagingObjs' = Store(pagingObjs, paging', DefaultPaging, spec.paging,
                           DefaultPaging)
    /\ UNCHANGED <<sorting, sortingObjs>>
    /\ contractStateType' = Undefined
    /\ QTrack("reset", 0, 0, FALSE)
    /\ qArg' = Undefined
    /\ UNCHANGED <<spec, atBuild>>
    /\ UNCHANGED <<poolVars, obsVars, clientVars, logVars, compileVars, triggerVars, refVars>>

\* reset(), lines 262-271: every field is made to refer to a new object.
reset ==
    /\ qCalls < MaxCalls
    /\ criteria' = Alloc(spec.criteria)
    /\ criteriaObjs' = Store(criteriaObjs, criteria', EmptyCriteria, spec.criteria,
                             EmptyCriteria)
    /\ paging' = Alloc(spec.paging)
    /\ pagingObjs' = Store(pagingObjs, paging', DefaultPaging, spec.paging,
                           DefaultPaging)
    /\ sorting' = Alloc(spec.sorting)
    /\ sortingObjs' = Store(sortingObjs, sorting', <<>>, spec.sorting, <<>>)
    /\ contractStateType' = Undefined
    /\ QTrack("reset", 0, 0, FALSE)
    /\ qArg' = Undefined
    /\ UNCHANGED <<spec, atBuild>>
    /\ UNCHANGED <<poolVars, obsVars, clientVars, logVars, compileVars, triggerVars, refVars>>

\* ============================================================ CordaRpcClient
\* src/nodes/Corda/transport/cordaRpcClient.ts, lines 56-360.  Every method that
\* talks to the node awaits one HTTP request; the request settles with a
\* response (axios resolves for a 2xx status) or with an AxiosError (any other
\* status, a timeout, a network failure).

Requests == 1..MaxInFlight

Methods == {"testConnection", "executeRpc", "uploadAttachment", "downloadAttachment"}
Operations == {"nodeInfo", "startFlow", "vaultQuery"}

\* A call in flight: the method and, for executeRpc, the operation it posts.
NoCall == [method |-> "", operation |-> ""]

\* What the HTTP request settles with.  data is the response body, as bytes.
Outcomes ==
    [ok : {TRUE}, status : {200, 204}, data : {<<>>, <<1>>},
     message : {""}, code : {Undefined}]
    \cup
    [ok : {FALSE}, status : {0}, data : {<<>>},
     message : {"timeout of 30000ms exceeded", "Request failed with status code 500"},
     code : {Undefined, Some("ECONNABORTED"), Some("ERR_BAD_RESPONSE")}]
NoOutcome == [ok |-> FALSE, status |-> 0, data |-> <<>>, message |-> "",
              code |-> Undefined]

\* RpcResult, lines 35-41.
NoResult == [success |-> FALSE, data |-> Undefined, error |-> Undefined,
             errorCode |-> Undefined]

\* Buffer.from(response.data), line 262: a copy of the bytes.
BufferFrom(data) == [i \in 1..Len(data) |-> data[i]]

\* The `return { success: true, data }` of each method's try block
\* (lines 86, 245, 262, 335).
Success(method, outcome) ==
    [success |-> TRUE,
     data |-> CASE method = "testConnection" -> Some(outcome.status = 200)
                [] method = "downloadAttachment" -> Some(BufferFrom(outcome.data))
                [] OTHER -> Some(outcome.data),
     error |-> Undefined, errorCode |-> Undefined]

\* The catch block of each method (lines 87-94, 246-253, 263-270, 336-343).
Failure(outcome) ==
    [success |-> FALSE, data |-> Undefined, error |-> Some(outcome.message),
     errorCode |-> outcome.code]

\* (mutant of Caught: the error leaves the method)
Caught_Rethrown(outcome) == FALSE

\* A rejected request lands in the method's catch block: every await is inside
\* the try.
Caught(outcome) == TRUE

\* A method issues its request and awaits it.
Issue(method, operation) ==
    /\ \E r \in Requests :
          /\ inFlight[r] = NoCall
          /\ \A q \in Requests : q < r => inFlight[q] # NoCall
          /\ inFlight' = [inFlight EXCEPT ![r] =
                            [method |-> method, operation |-> operation]]
    /\ cLast' = [op |-> "call", call |-> [method |-> method, operation |-> operation],
                 outcome |-> NoOutcome, threw |-> FALSE, result |-> NoResult]

\* testConnection(), lines 82-84: GET /api/status.
testConnection ==
    /\ Issue("testConnection", "")
    /\ UNCHANGED <<connected, probed>>
    /\ UNCHANGED <<poolVars, obsVars, queryVars, logVars, compileVars, triggerVars, refVars>>

\* executeRpc(), lines 324-333: POST /api/rpc.
executeRpc(operation) ==
    /\ Issue("executeRpc", operation)
    /\ UNCHANGED <<connected, probed>>
    /\ UNCHANGED <<poolVars, obsVars, queryVars, logVars, compileVars, triggerVars, refVars>>

\* getNodeInfo(), lines 100-102.
getNodeInfo == executeRpc("nodeInfo") /\ cLast'.call.operation = "nodeInfo"

\* startFlow(), lines 168-174.
startFlow == executeRpc("startFlow") /\ cLast'.call.operation = "startFlow"

\* queryVault(), lines 135-151.
queryVault == executeRpc("vaultQuery") /\ cLast'.call.operation = "vaultQuery"

\* uploadAttachment(), lines 224-243: POST /api/attachments.
uploadAttachment ==
    /\ Issue("uploadAttachment", "")
    /\ UNCHANGED <<connected, probed>>
    /\ UNCHANGED <<poolVars, obsVars, queryVars, logVars, compileVars, triggerVars, refVars>>

\* downloadAttachment(), lines 258-261: GET /api/attachments/<id>.
downloadAttachment ==
    /\ Issue("downloadAttachment", "")
    /\ UNCHANGED <<connected, probed>>
    /\ UNCHANGED <<poolVars, obsVars, queryVars, logVars, compileVars, triggerVars, refVars>>

\* The request of slot r settles and the method finishes: the rest of the try
\* block on a response, the catch block on an error.  Only testConnection()
\* writes this.isConnected, and only on a response (line 85).
Settle(r, outcome) ==
    /\ inFlight[r] # NoCall
    /\ inFlight' = [inFlight EXCEPT ![r] = NoCall]
    /\ connected' = IF inFlight[r].method = "testConnection" /\ outcome.ok
                     THEN outcome.status = 200
                     ELSE connected
    /\ probed' = IF inFlight[r].method = "testConnection"
                  THEN outcome.ok /\ outcome.status = 200
                  ELSE probed
    /\ cLast' = [op |-> "settle", call |-> inFlight[r], outcome |-> outcome,
                 threw |-> ~outcome.ok /\ ~Caught(outcome),
                 result |-> IF outcome.ok THEN Success(inFlight[r].method, outcome)
                            ELSE IF Caught(outcome) THEN Failure(outcome)
                            ELSE NoResult]
    /\ UNCHANGED <<poolVars, obsVars, queryVars, logVars, compileVars, triggerVars, refVars>>

\* close(), lines 349-352.
close ==
    /\ connected' = FALSE
    /\ probed' = FALSE
    /\ cLast' = [op |-> "close", call |-> NoCall, outcome |-> NoOutcome,
                 threw |-> FALSE, result |-> NoResult]
    /\ UNCHANGED inFlight
    /\ UNCHANGED <<poolVars, obsVars, queryVars, logVars, compileVars, triggerVars, refVars>>

\* ============================================================ specifications

\* The trigger parameters and event, and the StateRef results, before any call.
NoTrigger ==
    [params |-> [vaultEvent |-> "stateUpdated", contractStateType |-> ""],
     data |-> [produced |-> {}, consumed |-> {}, contractStateType |-> Undefined]]
NoRefValue == [txhash |-> <<>>, index |-> 0]
NoRefResult == [done |-> FALSE, threw |-> FALSE, ref |-> NoRefValue,
                valid |-> FALSE, back |-> [threw |-> FALSE, ref |-> NoRefValue]]

\* The state after `new ConnectionPool(primaryConfig, poolConfig)`, lines 641-657;
\* the other components stay as constructed.
PoolInit ==
    /\ config \in { c \in PoolConfigs : c.minSize <= c.maxSize }
    /\ connections = <<>>
    /\ cleanupInterval = TRUE
    /\ nClients = 0
    /\ closedClients = {}
    /\ pc = [t \in Tasks |-> "idle"]
    /\ elapsed = [t \in Tasks |-> 0]
    /\ sleepLeft = [t \in Tasks |-> 0]
    /\ cli = [t \in Tasks |-> NoClient]
    /\ initState = "none"
    /\ initProbes = 0
    /\ shutdownPc = "none"
    /\ exh = [t \in Tasks |-> FALSE]
    /\ raced = [t \in Tasks |-> FALSE]
    /\ last = [op |-> "init", task |-> 0, client |-> NoClient, result |-> "none",
               evicted |-> 0]
    /\ websocket = NoSocket
    /\ sockState = [s \in Sockets |-> "unused"]
    /\ reconnectAttempts = 0
    /\ timers = 0
    /\ subscriptions = {}
    /\ configs = [id \in SubIds |-> NoConfig]
    /\ observers = {}
    /\ nSubs = 0
    /\ stopped = FALSE
    /\ connects = 0
    /\ terminal = FALSE
    /\ sinceOpen = 0
    /\ obsLast = "init"
    /\ out = NoOut
    /\ criteria = 1
    /\ criteriaObjs = [r \in Refs |-> EmptyCriteria]
    /\ paging = 1
    /\ pagingObjs = [r \in Refs |-> DefaultPaging]
    /\ sorting = 1
    /\ sortingObjs = [r \in Refs |-> <<>>]
    /\ contractStateType = Undefined
    /\ spec = [built |-> FALSE, criteria |-> NoRef, paging |-> NoRef,
               sorting |-> NoRef, contractStateType |-> Undefined]
    /\ atBuild = [criteria |-> EmptyCriteria, paging |-> DefaultPaging,
                  sorting |-> Undefined, contractStateType |-> Undefined]
    /\ qLast = [op |-> "init", pageNumber |-> 0, pageSize |-> 0, threw |-> FALSE]
    /\ qArg = Undefined
    /\ qCalls = 0
    /\ connected = FALSE
    /\ inFlight = [r \in Requests |-> NoCall]
    /\ probed = FALSE
    /\ cLast = [op |-> "init", call |-> NoCall, outcome |-> NoOutcome,
                threw |-> FALSE, result |-> NoResult]
    /\ recording = "none"
    /\ arrived = <<>>
    /\ calls = <<>>
    /\ survived = {}
    /\ rpcIn = [criteria |-> Undefined]
    /\ rpcOut = Undefined
    /\ trigIn = NoTrigger
    /\ trigOut = "none"
    /\ srIn = <<>>
    /\ srOut = NoRefResult

\* The state after `new ObservableManager(wsUrl, credentials)`, lines 103-113.
ObsInit ==
    /\ config = [minSize |-> 0, maxSize |-> 1, idleTimeout |-> 1, acquireTimeout |-> 0]
    /\ connections = <<>>
    /\ cleanupInterval = FALSE
    /\ nClients = 0
    /\ closedClients = {}
    /\ pc = [t \in Tasks |-> "idle"]
    /\ elapsed = [t \in Tasks |-> 0]
    /\ sleepLeft = [t \in Tasks |-> 0]
    /\ cli = [t \in Tasks |-> NoClient]
    /\ initState = "none"
    /\ initProbes = 0
    /\ shutdownPc = "none"
    /\ exh = [t \in Tasks |-> FALSE]
    /\ raced = [t \in Tasks |-> FALSE]
    /\ last = [op |-> "init", task |-> 0, client |-> NoClient, result |-> "none",
               evicted |-> 0]
    /\ websocket = NoSocket
    /\ sockState = [s \in Sockets |-> "unused"]
    /\ reconnectAttempts = 0
    /\ timers = 0
    /\ subscriptions = {}
    /\ configs = [id \in SubIds |-> NoConfig]
    /\ observers = {}
    /\ nSubs = 0
    /\ stopped = FALSE
    /\ connects = 0
    /\ terminal = FALSE
    /\ sinceOpen = 0
    /\ obsLast = "init"
    /\ out = NoOut
    /\ criteria = 1
    /\ criteriaObjs = [r \in Refs |-> EmptyCriteria]
    /\ paging = 1
    /\ pagingObjs = [r \in Refs |-> DefaultPaging]
    /\ sorting = 1
    /\ sortingObjs = [r \in Refs |-> <<>>]
    /\ contractStateType = Undefined
    /\ spec = [built |-> FALSE, criteria |-> NoRef, paging |-> NoRef,
               sorting |-> NoRef, contractStateType |-> Undefined]
    /\ atBuild = [criteria |-> EmptyCriteria, paging |-> DefaultPaging,
                  sorting |-> Undefined, contractStateType |-> Undefined]
    /\ qLast = [op |-> "init", pageNumber |-> 0, pageSize |-> 0, threw |-> FALSE]
    /\ qArg = Undefined
    /\ qCalls = 0
    /\ connected = FALSE
    /\ inFlight = [r \in Requests |-> NoCall]
    /\ probed = FALSE
    /\ cLast = [op |-> "init", call |-> NoCall, outcome |-> NoOutcome,
                threw |-> FALSE, result |-> NoResult]
    /\ recording = "none"
    /\ arrived = <<>>
    /\ calls = <<>>
    /\ survived = {}
    /\ rpcIn = [criteria |-> Undefined]
    /\ rpcOut = Undefined
    /\ trigIn = NoTrigger
    /\ trigOut = "none"
    /\ srIn = <<>>
    /\ srOut = NoRefResult

\* The same, in a run that keeps the logs of frames and callback invocations.
EventsInit ==
    /\ config = [minSize |-> 0, maxSize |-> 1, idleTimeout |-> 1, acquireTimeout |-> 0]
    /\ connections = <<>>
    /\ cleanupInterval = FALSE
    /\ nClients = 0
    /\ closedClients = {}
    /\ pc = [t \in Tasks |-> "idle"]
    /\ elapsed = [t \in Tasks |-> 0]
    /\ sleepLeft = [t \in Tasks |-> 0]
    /\ cli = [t \in Tasks |-> NoClient]
    /\ initState = "none"
    /\ initProbes = 0
    /\ shutdownPc = "none"
    /\ exh = [t \in Tasks |-> FALSE]
    /\ raced = [t \in Tasks |-> FALSE]
    /\ last = [op |-> "init", task |-> 0, client |-> NoClient, result |-> "none",
               evicted |-> 0]
    /\ websocket = NoSocket
    /\ sockState = [s \in Sockets |-> "unused"]
    /\ reconnectAttempts = 0
    /\ timers = 0
    /\ subscriptions = {}
    /\ configs = [id \in SubIds |-> NoConfig]
    /\ observers = {}
    /\ nSubs = 0
    /\ stopped = FALSE
    /\ connects = 0
    /\ terminal = FALSE
    /\ sinceOpen = 0
    /\ obsLast = "init"
    /\ out = NoOut
    /\ criteria = 1
    /\ criteriaObjs = [r \in Refs |-> EmptyCriteria]
    /\ paging = 1
    /\ pagingObjs = [r \in Refs |-> DefaultPaging]
    /\ sorting = 1
    /\ sortingObjs = [r \in Refs |-> <<>>]
    /\ contractStateType = Undefined
    /\ spec = [built |-> FALSE, criteria |-> NoRef, paging |-> NoRef,
               sorting |-> NoRef, contractStateType |-> Undefined]
    /\ atBuild = [criteria |-> EmptyCriteria, paging |-> DefaultPaging,
                  sorting |-> Undefined, contractStateType |-> Undefined]
    /\ qLast = [op |-> "init", pageNumber |-> 0, pageSize |-> 0, threw |-> FALSE]
    /\ qArg = Undefined
    /\ qCalls = 0
    /\ connected = FALSE
    /\ inFlight = [r \in Requests |-> NoCall]
    /\ probed = FALSE
    /\ cLast = [op |-> "init", call |-> NoCall, outcome |-> NoOutcome,
                threw |-> FALSE, result |-> NoResult]
    /\ recording = "events"
    /\ arrived = <<>>
    /\ calls = <<>>
    /\ survived = {}
    /\ rpcIn = [criteria |-> Undefined]
    /\ rpcOut = Undefined
    /\ trigIn = NoTrigger
    /\ trigOut = "none"
    /\ srIn = <<>>
    /\ srOut = NoRefResult

\* The state after `new VaultQueryBuilder()`, vaultQueryUtils.ts lines 97-103.
QueryInit ==
    /\ config = [minSize |-> 0, maxSize |-> 1, idleTimeout |-> 1, acquireTimeout |-> 0]
    /\ connections = <<>>
    /\ cleanupInterval = FALSE
    /\ nClients = 0
    /\ closedClients = {}
    /\ pc = [t \in Tasks |-> "idle"]
    /\ elapsed = [t \in Tasks |-> 0]
    /\ sleepLeft = [t \in Tasks |-> 0]
    /\ cli = [t \in Tasks |-> NoClient]
    /\ initState = "none"
    /\ initProbes = 0
    /\ shutdownPc = "none"
    /\ exh = [t \in Tasks |-> FALSE]
    /\ raced = [t \in Tasks |-> FALSE]
    /\ last = [op |-> "init", task |-> 0, client |-> NoClient, result |-> "none",
               evicted |-> 0]
    /\ websocket = NoSocket
    /\ sockState = [s \in Sockets |-> "unused"]
    /\ reconnectAttempts = 0
    /\ timers = 0
    /\ subscriptions = {}
    /\ configs = [id \in SubIds |-> NoConfig]
    /\ observers = {}
    /\ nSubs = 0
    /\ stopped = FALSE
    /\ connects = 0
    /\ terminal = FALSE
    /\ sinceOpen = 0
    /\ obsLast = "init"
    /\ out = NoOut
    /\ criteria = 1
    /\ criteriaObjs = [r \in Refs |-> EmptyCriteria]
    /\ paging = 1
    /\ pagingObjs = [r \in Refs |-> DefaultPaging]
    /\ sorting = 1
    /\ sortingObjs = [r \in Refs |-> <<>>]
    /\ contractStateType = Undefined
    /\ spec = [built |-> FALSE, criteria |-> NoRef, paging |-> NoRef,
               sorting |-> NoRef, contractStateType |-> Undefined]
    /\ atBuild = [criteria |-> EmptyCriteria, paging |-> DefaultPaging,
                  sorting |-> Undefined, contractStateType |-> Undefined]
    /\ qLast = [op |-> "init", pageNumber |-> 0, pageSize |-> 0, threw |-> FALSE]
    /\ qArg = Undefined
    /\ qCalls = 0
    /\ connected = FALSE
    /\ inFlight = [r \in Requests |-> NoCall]
    /\ probed = FALSE
    /\ cLast = [op |-> "init", call |-> NoCall, outcome |-> NoOutcome,
                threw |-> FALSE, result |-> NoResult]
    /\ recording = "none"
    /\ arrived = <<>>
    /\ calls = <<>>
    /\ survived = {}
    /\ rpcIn = [criteria |-> Undefined]
    /\ rpcOut = Undefined
    /\ trigIn = NoTrigger
    /\ trigOut = "none"
    /\ srIn = <<>>
    /\ srOut = NoRefResult

\* The state after `new CordaRpcClient(config)`, lines 57-77.
ClientInit ==
    /\ config = [minSize |-> 0, maxSize |-> 1, idleTimeout |-> 1, acquireTimeout |-> 0]
    /\ connections = <<>>
    /\ cleanupInterval = FALSE
    /\ nClients = 0
    /\ closedClients = {}
    /\ pc = [t \in Tasks |-> "idle"]
    /\ elapsed = [t \in Tasks |-> 0]
    /\ sleepLeft = [t \in Tasks |-> 0]
    /\ cli = [t \in Tasks |-> NoClient]
    /\ initState = "none"
    /\ initProbes = 0
    /\ shutdownPc = "none"
    /\ exh = [t \in Tasks |-> FALSE]
    /\ raced = [t \in Tasks |-> FALSE]
    /\ last = [op |-> "init", task |-> 0, client |-> NoClient, result |-> "none",
               evicted |-> 0]
    /\ websocket = NoSocket
    /\ sockState = [s \in Sockets |-> "unused"]
    /\ reconnectAttempts = 0
    /\ timers = 0
    /\ subscriptions = {}
    /\ configs = [id \in SubIds |-> NoConfig]
    /\ observers = {}
    /\ nSubs = 0
    /\ stopped = FALSE
    /\ connects = 0
    /\ terminal = FALSE
    /\ sinceOpen = 0
    /\ obsLast = "init"
    /\ out = NoOut
    /\ criteria = 1
    /\ criteriaObjs = [r \in Refs |-> EmptyCriteria]
    /\ paging = 1
    /\ pagingObjs = [r \in Refs |-> DefaultPaging]
    /\ sorting = 1
    /\ sortingObjs = [r \in Refs |-> <<>>]
    /\ contractStateType = Undefined
    /\ spec = [built |-> FALSE, criteria |-> NoRef, paging |-> NoRef,
               sorting |-> NoRef, contractStateType |-> Undefined]
    /\ atBuild = [criteria |-> EmptyCriteria, paging |-> DefaultPaging,
                  sorting |-> Undefined, contractStateType |-> Undefined]
    /\ qLast = [op |-> "init", pageNumber |-> 0, pageSize |-> 0, threw |-> FALSE]
    /\ qArg = Undefined
    /\ qCalls = 0
    /\ connected = FALSE
    /\ inFlight = [r \in Requests |-> NoCall]
    /\ probed = FALSE
    /\ cLast = [op |-> "init", call |-> NoCall, outcome |-> NoOutcome,
                threw |-> FALSE, result |-> NoResult]
    /\ recording = "none"
    /\ arrived = <<>>
    /\ calls = <<>>
    /\ survived = {}
    /\ rpcIn = [criteria |-> Undefined]
    /\ rpcOut = Undefined
    /\ trigIn = NoTrigger
    /\ trigOut = "none"
    /\ srIn = <<>>
    /\ srOut = NoRefResult


PoolNext ==
    \/ \E t \in Tasks : StartAcquire(t)
    \/ \E t \in Tasks, ok \in BOOLEAN : ProbeDone(t, ok)
    \/ \E t \in Tasks : AfterCreate(t)
    \/ \E t \in Tasks : AcquireWake(t)
    \/ \E t \in Tasks : ReleaseCall(t)
    \/ \E c \in 1..(MaxClients + 1) : ReleaseUntracked(c)
    \/ \E t \in Tasks, r \in {"resolved", "rejected"} : WithConnectionSettle(t, r)
    \/ initialize
    \/ \E ok \in BOOLEAN : InitProbeDone(ok)
    \/ cleanup
    \/ shutdown
    \/ ShutdownFinish
    \/ Tick

SpecPool == PoolInit /\ [][PoolNext]_vars

\* The pool, in a run that keeps the record of shutdown() calls made during an
\* acquire().
RaceInit ==
    /\ config \in { c \in PoolConfigs : c.minSize <= c.maxSize }
    /\ connections = <<>>
    /\ cleanupInterval = TRUE
    /\ nClients = 0
    /\ closedClients = {}
    /\ pc = [t \in Tasks |-> "idle"]
    /\ elapsed = [t \in Tasks |-> 0]
    /\ sleepLeft = [t \in Tasks |-> 0]
    /\ cli = [t \in Tasks |-> NoClient]
    /\ initState = "none"
    /\ initProbes = 0
    /\ shutdownPc = "none"
    /\ exh = [t \in Tasks |-> FALSE]
    /\ raced = [t \in Tasks |-> FALSE]
    /\ last = [op |-> "init", task |-> 0, client |-> NoClient, result |-> "none",
               evicted |-> 0]
    /\ websocket = NoSocket
    /\ sockState = [s \in Sockets |-> "unused"]
    /\ reconnectAttempts = 0
    /\ timers = 0
    /\ subscriptions = {}
    /\ configs = [id \in SubIds |-> NoConfig]
    /\ observers = {}
    /\ nSubs = 0
    /\ stopped = FALSE
    /\ connects = 0
    /\ terminal = FALSE
    /\ sinceOpen = 0
    /\ obsLast = "init"
    /\ out = NoOut
    /\ criteria = 1
    /\ criteriaObjs = [r \in Refs |-> EmptyCriteria]
    /\ paging = 1
    /\ pagingObjs = [r \in Refs |-> DefaultPaging]
    /\ sorting = 1
    /\ sortingObjs = [r \in Refs |-> <<>>]
    /\ contractStateType = Undefined
    /\ spec = [built |-> FALSE, criteria |-> NoRef, paging |-> NoRef,
               sorting |-> NoRef, contractStateType |-> Undefined]
    /\ atBuild = [criteria |-> EmptyCriteria, paging |-> DefaultPaging,
                  sorting |-> Undefined, contractStateType |-> Undefined]
    /\ qLast = [op |-> "init", pageNumber |-> 0, pageSize |-> 0, threw |-> FALSE]
    /\ qArg = Undefined
    /\ qCalls = 0
    /\ connected = FALSE
    /\ inFlight = [r \in Requests |-> NoCall]
    /\ probed = FALSE
    /\ cLast = [op |-> "init", call |-> NoCall, outcome |-> NoOutcome,
                threw |-> FALSE, result |-> NoResult]
    /\ recording = "race"
    /\ arrived = <<>>
    /\ calls = <<>>
    /\ survived = {}
    /\ rpcIn = [criteria |-> Undefined]
    /\ rpcOut = Undefined
    /\ trigIn = NoTrigger
    /\ trigOut = "none"
    /\ srIn = <<>>
    /\ srOut = NoRefResult

SpecRace == RaceInit /\ [][PoolNext]_vars

ObsNext ==
    \/ connect
    \/ \E s \in Sockets : SocketOpen(s)
    \/ \E s \in Sockets : SocketError(s)
    \/ \E s \in Sockets : SocketClose(s)
    \/ ReconnectTimer
    \/ \E s \in Sockets, frame \in Frames : Message(s, frame)
    \/ \E cfg \in Configs : subscribe(cfg)
    \/ \E id \in SubIds : unsubscribe(id)
    \/ unsubscribeAll
    \/ disconnect

SpecObs == ObsInit /\ [][ObsNext]_vars

\* The manager, in a run that keeps the record of the subscriptions that have
\* been through a socket close.
ReconnectInit ==
    /\ config = [minSize |-> 0, maxSize |-> 1, idleTimeout |-> 1, acquireTimeout |-> 0]
    /\ connections = <<>>
    /\ cleanupInterval = FALSE
    /\ nClients = 0
    /\ closedClients = {}
    /\ pc = [t \in Tasks |-> "idle"]
    /\ elapsed = [t \in Tasks |-> 0]
    /\ sleepLeft = [t \in Tasks |-> 0]
    /\ cli = [t \in Tasks |-> NoClient]
    /\ initState = "none"
    /\ initProbes = 0
    /\ shutdownPc = "none"
    /\ exh = [t \in Tasks |-> FALSE]
    /\ raced = [t \in Tasks |-> FALSE]
    /\ last = [op |-> "init", task |-> 0, client |-> NoClient, result |-> "none",
               evicted |-> 0]
    /\ websocket = NoSocket
    /\ sockState = [s \in Sockets |-> "unused"]
    /\ reconnectAttempts = 0
    /\ timers = 0
    /\ subscriptions = {}
    /\ configs = [id \in SubIds |-> NoConfig]
    /\ observers = {}
    /\ nSubs = 0
    /\ stopped = FALSE
    /\ connects = 0
    /\ terminal = FALSE
    /\ sinceOpen = 0
    /\ obsLast = "init"
    /\ out = NoOut
    /\ criteria = 1
    /\ criteriaObjs = [r \in Refs |-> EmptyCriteria]
    /\ paging = 1
    /\ pagingObjs = [r \in Refs |-> DefaultPaging]
    /\ sorting = 1
    /\ sortingObjs = [r \in Refs |-> <<>>]
    /\ contractStateType = Undefined
    /\ spec = [built |-> FALSE, criteria |-> NoRef, paging |-> NoRef,
               sorting |-> NoRef, contractStateType |-> Undefined]
    /\ atBuild = [criteria |-> EmptyCriteria, paging |-> DefaultPaging,
                  sorting |-> Undefined, contractStateType |-> Undefined]
    /\ qLast = [op |-> "init", pageNumber |-> 0, pageSize |-> 0, threw |-> FALSE]
    /\ qArg = Undefined
    /\ qCalls = 0
    /\ connected = FALSE
    /\ inFlight = [r \in Requests |-> NoCall]
    /\ probed = FALSE
    /\ cLast = [op |-> "init", call |-> NoCall, outcome |-> NoOutcome,
                threw |-> FALSE, result |-> NoResult]
    /\ recording = "reconnect"
    /\ arrived = <<>>
    /\ calls = <<>>
    /\ survived = {}
    /\ rpcIn = [criteria |-> Undefined]
    /\ rpcOut = Undefined
    /\ trigIn = NoTrigger
    /\ trigOut = "none"
    /\ srIn = <<>>
    /\ srOut = NoRefResult

SpecReconnect == ReconnectInit /\ [][ObsNext]_vars

\* The manager on sockets that stay up once open, with the event logs kept.
EventsNext ==
    \/ connect
    \/ \E s \in Sockets : SocketOpen(s)
    \/ \E s \in Sockets, frame \in Frames : Message(s, frame)
    \/ \E cfg \in Configs : subscribe(cfg)
    \/ \E id \in SubIds : unsubscribe(id)
    \/ unsubscribeAll
    \/ disconnect

SpecEvents == EventsInit /\ [][EventsNext]_vars

QueryNext ==
    \/ \E status \in Statuses : withStatus(status)
    \/ \E types \in StringLists : withContractStateTypes(types)
    \/ \E refs \in OneStringList : withStateRefs(refs)
    \/ \E notaries \in StringLists : withNotary(notaries)
    \/ \E participants \in OneStringList : withParticipants(participants)
    \/ \E ids \in OneStringList : withExternalIds(ids)
    \/ \E condition \in TimeConditions : withTimeCondition(condition)
    \/ \E timestamp \in Timestamps : recordedAfter(timestamp)
    \/ \E timestamp \in Timestamps : recordedBefore(timestamp)
    \/ \E from \in Timestamps, to \in Timestamps : recordedBetween(from, to)
    \/ \E condition \in SoftLockingConditions : withSoftLocking(condition)
    \/ \E status \in RelevancyStatuses : withRelevancyStatus(status)
    \/ \E pageNumber \in PageNumbers, pageSize \in PageSizes :
          withPaging(pageNumber, pageSize)
    \/ \E attribute \in SortAttributes,
          direction \in {Undefined} \cup { Some(d) : d \in SortDirections } :
          orderBy(attribute, direction)
    \/ \E stateType \in ContractStateTypes : forContractState(stateType)
    \/ build
    \/ reset

SpecQuery == QueryInit /\ [][QueryNext]_vars

ClientNext ==
    \/ testConnection
    \/ getNodeInfo
    \/ startFlow
    \/ queryVault
    \/ uploadAttachment
    \/ downloadAttachment
    \/ \E r \in Requests, outcome \in Outcomes : Settle(r, outcome)
    \/ close

SpecClient == ClientInit /\ [][ClientNext]_vars

\* ------------------------------------------------------- toRpcQueryCriteria
\* vaultQueryUtils.ts, lines 317-330: the criteria of a VaultQuerySpec compiled
\* into the object sent to the node.

\* The criteria a VaultQuerySpec can carry (VaultQueryCriteria, lines 27-39):
\* every field optional; a list can be set and empty.
CompileCriteria ==
    [status               : {Undefined} \cup {Some(x) : x \in Statuses},
     contractStateTypes   : {Undefined} \cup {Some(x) : x \in OneStringList},
     stateRefs            : {Undefined} \cup {Some(x) : x \in OneStringList},
     notary               : {Undefined} \cup {Some(x) : x \in OneStringList \cup {<<>>}},
     softLockingCondition : {Undefined} \cup {Some(x) : x \in SoftLockingConditions},
     timeCondition        : {Undefined} \cup {Some(x) : x \in TimeConditions},
     relevancyStatus      : {Undefined} \cup {Some(x) : x \in RelevancyStatuses},
     constraintTypes      : {Undefined} \cup {Some(x) : x \in OneStringList},
     constraints          : {Undefined} \cup {Some(x) : x \in OneStringList},
     participants         : {Undefined} \cup {Some(x) : x \in OneStringList},
     externalIds          : {Undefined} \cup {Some(x) : x \in OneStringList}]

\* The arguments of the call: a specification with or without criteria.
CompileInputs ==
    {[criteria |-> c] : c \in {Undefined} \cup {Some(x) : x \in CompileCriteria}}

\* `spec.criteria?.field`: undefined when the specification has no criteria.
CriteriaField(s, field) ==
    IF s.criteria = Undefined THEN Undefined ELSE s.criteria[1][field]

\* (mutant of OrDefault: the default is taken whatever the value)
OrDefault_AlwaysDefault(v, d) == d

\* `v || d` on a value that is undefined, a non-empty string, an array or an
\* object: the default when undefined, the value otherwise (an empty array is
\* truthy).
OrDefault(v, d) == IF v = Undefined THEN d ELSE v[1]

\* Lines 317-330.
toRpcQueryCriteria(s) ==
    [status               |-> OrDefault(CriteriaField(s, "status"), "UNCONSUMED"),
     contractStateTypes   |-> OrDefault(CriteriaField(s, "contractStateTypes"), <<>>),
     stateRefs            |-> OrDefault(CriteriaField(s, "stateRefs"), <<>>),
     notary               |-> OrDefault(CriteriaField(s, "notary"), <<>>),
     softLockingCondition |-> CriteriaField(s, "softLockingCondition"),
     timeCondition        |-> CriteriaField(s, "timeCondition"),
     relevancyStatus      |-> OrDefault(CriteriaField(s, "relevancyStatus"), "ALL"),
     constraintTypes      |-> OrDefault(CriteriaField(s, "constraintTypes"), <<>>),
     constraints          |-> OrDefault(CriteriaField(s, "constraints"), <<>>),
     participants         |-> OrDefault(CriteriaField(s, "participants"), <<>>)]

\* One call: the function reads its argument and returns a fresh object.
Compile ==
    /\ rpcOut = Undefined
    /\ trigIn = NoTrigger
    /\ trigOut = "none"
    /\ srIn = <<>>
    /\ srOut = NoRefResult
    /\ rpcOut' = Some(toRpcQueryCriteria(rpcIn))
    /\ UNCHANGED rpcIn
    /\ UNCHANGED <<poolVars, obsVars, queryVars, clientVars, logVars, triggerVars,
                   refVars>>

\* The state before a call of toRpcQueryCriteria, for each argument.
CompileInit ==
    /\ config = [minSize |-> 0, maxSize |-> 1, idleTimeout |-> 1, acquireTimeout |-> 0]
    /\ connections = <<>>
    /\ cleanupInterval = FALSE
    /\ nClients = 0
    /\ closedClients = {}
    /\ pc = [t \in Tasks |-> "idle"]
    /\ elapsed = [t \in Tasks |-> 0]
    /\ sleepLeft = [t \in Tasks |-> 0]
    /\ cli = [t \in Tasks |-> NoClient]
    /\ initState = "none"
    /\ initProbes = 0
    /\ shutdownPc = "none"
    /\ exh = [t \in Tasks |-> FALSE]
    /\ raced = [t \in Tasks |-> FALSE]
    /\ last = [op |-> "init", task |-> 0, client |-> NoClient, result |-> "none",
               evicted |-> 0]
    /\ websocket = NoSocket
    /\ sockState = [s \in Sockets |-> "unused"]
    /\ reconnectAttempts = 0
    /\ timers = 0
    /\ subscriptions = {}
    /\ configs = [id \in SubIds |-> NoConfig]
    /\ observers = {}
    /\ nSubs = 0
    /\ stopped = FALSE
    /\ connects = 0
    /\ terminal = FALSE
    /\ sinceOpen = 0
    /\ obsLast = "init"
    /\ out = NoOut
    /\ criteria = 1
    /\ criteriaObjs = [r \in Refs |-> EmptyCriteria]
    /\ paging = 1
    /\ pagingObjs = [r \in Refs |-> DefaultPaging]
    /\ sorting = 1
    /\ sortingObjs = [r \in Refs |-> <<>>]
    /\ contractStateType = Undefined
    /\ spec = [built |-> FALSE, criteria |-> NoRef, paging |-> NoRef,
               sorting |-> NoRef, contractStateType |-> Undefined]
    /\ atBuild = [criteria |-> EmptyCriteria, paging |-> DefaultPaging,
                  sorting |-> Undefined, contractStateType |-> Undefined]
    /\ qLast = [op |-> "init", pageNumber |-> 0, pageSize |-> 0, threw |-> FALSE]
    /\ qArg = Undefined
    /\ qCalls = 0
    /\ connected = FALSE
    /\ inFlight = [r \in Requests |-> NoCall]
    /\ probed = FALSE
    /\ cLast = [op |-> "init", call |-> NoCall, outcome |-> NoOutcome,
                threw |-> FALSE, result |-> NoResult]
    /\ recording = "none"
    /\ arrived = <<>>
    /\ calls = <<>>
    /\ survived = {}
    /\ rpcIn \in CompileInputs
    /\ rpcOut = Undefined
    /\ trigIn = NoTrigger
    /\ trigOut = "none"
    /\ srIn = <<>>
    /\ srOut = NoRefResult

CompileNext == Compile

SpecCompile == CompileInit /\ [][CompileNext]_vars

\* ------------------------------------------------------------- CordaTrigger
\* src/nodes/Corda/CordaTrigger.node.ts: a vault trigger (eventCategory 'vault')
\* and one VAULT_UPDATE event on the manager's socket.

\* The options of 'vaultEvent', lines 57-61.
VaultEvents == {"stateProduced", "stateConsumed", "stateUpdated"}

\* The node's parameters: vaultEvent and contractStateType (a string, '' by
\* default: lines 101-108).
TriggerParams == [vaultEvent : VaultEvents, contractStateType : {"", "X"}]

\* event.data of a vault update: the contracts of its produced and of its
\* consumed states (VaultUpdateEvent, observableManager.ts lines 41-45) and the
\* property `contractStateType` the callback reads from it (line 245), which a
\* VaultUpdateEvent does not have.
VaultData ==
    [produced : SUBSET Contracts, consumed : SUBSET Contracts,
     contractStateType : {Undefined} \cup {Some(c) : c \in Contracts}]

TriggerInputs == [params : TriggerParams, data : VaultData]
\* Lines 184-187: the subscription config of a vault trigger;
\* `contractStateType || undefined`.
subscriptionConfig(params) ==
    [type |-> "VAULT_UPDATE",
     contractStateType |-> IF params.contractStateType = "" THEN Undefined
                           ELSE Some(params.contractStateType)]

\* filterCordaEvent(), lines 230-259, case 'vault' (data is an object).
filterCordaEvent(data, specificEvent, contractFilter) ==
    /\ ~(specificEvent = "stateProduced" /\ data.produced = {})
    /\ ~(specificEvent = "stateConsumed" /\ data.consumed = {})
    /\ ~(contractFilter # "" /\ data.contractStateType # Some(contractFilter))

\* The event goes through the stream of getEventStream() and then through the
\* callback of lines 190-210, which emits an item if filterCordaEvent() says so.
TriggerEvent ==
    /\ trigOut = "none"
    /\ LET p == trigIn.params
           d == trigIn.data
           event == [ok |-> TRUE, shape |-> "event", type |-> "VAULT_UPDATE",
                     contracts |-> d.produced \cup d.consumed]
       IN trigOut' = IF /\ Matches(subscriptionConfig(p), event)
                        /\ filterCordaEvent(d, p.vaultEvent, p.contractStateType)
                     THEN "emitted" ELSE "dropped"
    /\ UNCHANGED trigIn
    /\ UNCHANGED <<poolVars, obsVars, queryVars, clientVars, logVars, compileVars,
                   refVars>>

\* A trigger with its subscription in place, before the event, for each
\* parameter setting and event.
TriggerInit ==
    /\ config = [minSize |-> 0, maxSize |-> 1, idleTimeout |-> 1, acquireTimeout |-> 0]
    /\ connections = <<>>
    /\ cleanupInterval = FALSE
    /\ nClients = 0
    /\ closedClients = {}
    /\ pc = [t \in Tasks |-> "idle"]
    /\ elapsed = [t \in Tasks |-> 0]
    /\ sleepLeft = [t \in Tasks |-> 0]
    /\ cli = [t \in Tasks |-> NoClient]
    /\ initState = "none"
    /\ initProbes = 0
    /\ shutdownPc = "none"
    /\ exh = [t \in Tasks |-> FALSE]
    /\ raced = [t \in Tasks |-> FALSE]
    /\ last = [op |-> "init", task |-> 0, client |-> NoClient, result |-> "none",
               evicted |-> 0]
    /\ websocket = NoSocket
    /\ sockState = [s \in Sockets |-> "unused"]
    /\ reconnectAttempts = 0
    /\ timers = 0
    /\ subscriptions = {}
    /\ configs = [id \in SubIds |-> NoConfig]
    /\ observers = {}
    /\ nSubs = 0
    /\ stopped = FALSE
    /\ connects = 0
    /\ terminal = FALSE
    /\ sinceOpen = 0
    /\ obsLast = "init"
    /\ out = NoOut
    /\ criteria = 1
    /\ criteriaObjs = [r \in Refs |-> EmptyCriteria]
    /\ paging = 1
    /\ pagingObjs = [r \in Refs |-> DefaultPaging]
    /\ sorting = 1
    /\ sortingObjs = [r \in Refs |-> <<>>]
    /\ contractStateType = Undefined
    /\ spec = [built |-> FALSE, criteria |-> NoRef, paging |-> NoRef,
               sorting |-> NoRef, contractStateType |-> Undefined]
    /\ atBuild = [criteria |-> EmptyCriteria, paging |-> DefaultPaging,
                  sorting |-> Undefined, contractStateType |-> Undefined]
    /\ qLast = [op |-> "init", pageNumber |-> 0, pageSize |-> 0, threw |-> FALSE]
    /\ qArg = Undefined
    /\ qCalls = 0
    /\ connected = FALSE
    /\ inFlight = [r \in Requests |-> NoCall]
    /\ probed = FALSE
    /\ cLast = [op |-> "init", call |-> NoCall, outcome |-> NoOutcome,
                threw |-> FALSE, result |-> NoResult]
    /\ recording = "none"
    /\ arrived = <<>>
    /\ calls = <<>>
    /\ survived = {}
    /\ rpcIn = [criteria |-> Undefined]
    /\ rpcOut = Undefined
    /\ trigIn \in TriggerInputs
    /\ trigOut = "none"
    /\ srIn = <<>>
    /\ srOut = NoRefResult

TriggerNext == TriggerEvent

SpecTrigger == TriggerInit /\ [][TriggerNext]_vars

\* ----------------------------------------------------------- StateRef utilities
\* src/unnamed/part_003, lines 46-91.  A string is a sequence of characters.

\* A hexadecimal letter, a letter that is not, two digits, the separator, the
\* minus sign and the space.
RefChars == {"A", "g", "0", "1", ":", "-", " "}
HexChars == {"A", "0", "1"}
DecimalDigits == <<"0", "1", "2", "3", "4", "5", "6", "7", "8", "9">>
RefStrings == UNION { [1..n -> RefChars] : n \in 0..MaxRefLen }

\* String.prototype.split(':'), line 47.
RECURSIVE Split(_)
Split(str) ==
    IF \E i \in 1..Len(str) : str[i] = ":"
    THEN LET p == CHOOSE i \in 1..Len(str) :
                     str[i] = ":" /\ \A j \in 1..(i - 1) : str[j] # ":"
         IN <<SubSeq(str, 1, p - 1)>> \o Split(SubSeq(str, p + 1, Len(str)))
    ELSE <<str>>

\* String.prototype.trim(), lines 53-54.
Trim(str) ==
    LET inked == { i \in 1..Len(str) : str[i] # " " }
    IN IF inked = {} THEN <<>>
       ELSE SubSeq(str, CHOOSE i \in inked : \A j \in inked : i <= j,
                        CHOOSE i \in inked : \A j \in inked : i >= j)

DigitValue(ch) == (CHOOSE k \in 1..10 : DecimalDigits[k] = ch) - 1
IsDigit(ch) == \E k \in 1..10 : DecimalDigits[k] = ch

RECURSIVE DecimalValue(_)
DecimalValue(digits) ==
    IF digits = <<>> THEN 0
    ELSE 10 * DecimalValue(SubSeq(digits, 1, Len(digits) - 1))
           + DigitValue(digits[Len(digits)])

\* parseInt(str, 10) on a trimmed string, line 54: an optional minus sign, then
\* the longest run of digits; what follows the run is ignored; NaN when the run
\* is empty.
parseInt(str) ==
    LET neg  == str # <<>> /\ str[1] = "-"
        body == IF neg THEN SubSeq(str, 2, Len(str)) ELSE str
        n    == CHOOSE k \in 0..Len(body) :
                    /\ \A i \in 1..k : IsDigit(body[i])
                    /\ (k < Len(body) => ~IsDigit(body[k + 1]))
    IN IF n = 0 THEN [nan |-> TRUE, value |-> 0]
       ELSE [nan |-> FALSE,
             value |-> IF neg THEN 0 - DecimalValue(SubSeq(body, 1, n))
                       ELSE DecimalValue(SubSeq(body, 1, n))]

\* /^[0-9A-Fa-f]+$/.test(txhash), line 61.
IsHexString(txhash) ==
    txhash # <<>> /\ \A i \in 1..Len(txhash) : txhash[i] \in HexChars

\* parseStateRef(), lines 46-66: threw, or the StateRef returned.
parseStateRef(str) ==
    LET parts == Split(str) IN
    IF Len(parts) # 2 THEN [threw |-> TRUE, ref |-> NoRefValue]
    ELSE LET txhash == Trim(parts[1])
             index  == parseInt(Trim(parts[2]))
         IN IF index.nan \/ index.value < 0 THEN [threw |-> TRUE, ref |-> NoRefValue]
            ELSE IF ~IsHexString(txhash) THEN [threw |-> TRUE, ref |-> NoRefValue]
            ELSE [threw |-> FALSE, ref |-> [txhash |-> txhash, index |-> index.value]]

\* `${index}` of a non-negative integer.
RECURSIVE NumberToString(_)
NumberToString(n) ==
    IF n < 10 THEN <<DecimalDigits[n + 1]>>
    ELSE NumberToString(n \div 10) \o <<DecimalDigits[(n % 10) + 1]>>

\* toStateRefString(), lines 74-76.
toStateRefString(stateRef) ==
    stateRef.txhash \o <<":">> \o NumberToString(stateRef.index)

\* isValidStateRef(), lines 84-91.
isValidStateRef(str) == ~parseStateRef(str).threw

\* parseStateRef(srIn), isValidStateRef(srIn) and, for a StateRef that came back,
\* parseStateRef(toStateRefString(ref)).
StateRefCalls ==
    /\ ~srOut.done
    /\ LET r == parseStateRef(srIn)
       IN srOut' = [done |-> TRUE, threw |-> r.threw, ref |-> r.ref,
                    valid |-> isValidStateRef(srIn),
                    back |-> IF r.threw THEN [threw |-> FALSE, ref |-> NoRefValue]
                             ELSE parseStateRef(toStateRefString(r.ref))]
    /\ UNCHANGED srIn
    /\ UNCHANGED <<poolVars, obsVars, queryVars, clientVars, logVars, compileVars,
                   triggerVars>>

\* The state before the calls, for each argument.
StateRefInit ==
    /\ config = [minSize |-> 0, maxSize |-> 1, idleTimeout |-> 1, acquireTimeout |-> 0]
    /\ connections = <<>>
    /\ cleanupInterval = FALSE
    /\ nClients = 0
    /\ closedClients = {}
    /\ pc = [t \in Tasks |-> "idle"]
    /\ elapsed = [t \in Tasks |-> 0]
    /\ sleepLeft = [t \in Tasks |-> 0]
    /\ cli = [t \in Tasks |-> NoClient]
    /\ initState = "none"
    /\ initProbes = 0
    /\ shutdownPc = "none"
    /\ exh = [t \in Tasks |-> FALSE]
    /\ raced = [t \in Tasks |-> FALSE]
    /\ last = [op |-> "init", task |-> 0, client |-> NoClient, result |-> "none",
               evicted |-> 0]
    /\ websocket = NoSocket
    /\ sockState = [s \in Sockets |-> "unused"]
    /\ reconnectAttempts = 0
    /\ timers = 0
    /\ subscriptions = {}
    /\ configs = [id \in SubIds |-> NoConfig]
    /\ observers = {}
    /\ nSubs = 0
    /\ stopped = FALSE
    /\ connects = 0
    /\ terminal = FALSE
    /\ sinceOpen = 0
    /\ obsLast = "init"
    /\ out = NoOut
    /\ criteria = 1
    /\ criteriaObjs = [r \in Refs |-> EmptyCriteria]
    /\ paging = 1
    /\ pagingObjs = [r \in Refs |-> DefaultPaging]
    /\ sorting = 1
    /\ sortingObjs = [r \in Refs |-> <<>>]
    /\ contractStateType = Undefined
    /\ spec = [built |-> FALSE, criteria |-> NoRef, paging |-> NoRef,
               sorting |-> NoRef, contractStateType |-> Undefined]
    /\ atBuild = [criteria |-> EmptyCriteria, paging |-> DefaultPaging,
                  sorting |-> Undefined, contractStateType |-> Undefined]
    /\ qLast = [op |-> "init", pageNumber |-> 0, pageSize |-> 0, threw |-> FALSE]
    /\ qArg = Undefined
    /\ qCalls = 0
    /\ connected = FALSE
    /\ inFlight = [r \in Requests |-> NoCall]
    /\ probed = FALSE
    /\ cLast = [op |-> "init", call |-> NoCall, outcome |-> NoOutcome,
                threw |-> FALSE, result |-> NoResult]
    /\ recording = "none"
    /\ arrived = <<>>
    /\ calls = <<>>
    /\ survived = {}
    /\ rpcIn = [criteria |-> Undefined]
    /\ rpcOut = Undefined
    /\ trigIn = NoTrigger
    /\ trigOut = "none"
    /\ srIn \in RefStrings
    /\ srOut = NoRefResult

StateRefNext == StateRefCalls

SpecStateRef == StateRefInit /\ [][StateRefNext]_vars


\* The event loop runs every queued microtask and every due timer in the end, and
\* the clock advances.
SpecPoolFair ==
    /\ SpecPool
    /\ WF_vars(Tick)
    /\ WF_vars(ShutdownFinish)
    /\ \A t \in Tasks : WF_vars(AcquireWake(t)) /\ WF_vars(AfterCreate(t))

\* ==================================================== claims: ConnectionPool

\* Each slot's client and inUse flag.
Slots(conns) == [i \in 1..Len(conns) |-> <<conns[i].client, conns[i].inUse>>]

\* C1: no client is held by two callers that have not released it.
C1_SlotExclusivity ==
    \A t1 \in Tasks, t2 \in Tasks :
        (t1 # t2 /\ pc[t1] = "holding" /\ pc[t2] = "holding") => cli[t1] # cli[t2]

\* C2: the pool never tracks more than maxSize connections.
C2_SizeBound == Len(connections) <= config.maxSize

\* C5: when withConnection() settles after a successful acquire(), no tracked slot
\* of the acquired client is in use, and withConnection() settles as the operation
\* did; when acquire() fails, withConnection() fails with the pool timeout, the
\* operation does not run and no slot changes.
C5_WithConnectionReleases ==
    [][ /\ last'.op \in {"opResolved", "opRejected"} =>
            /\ pc[last'.task] = "holding"
            /\ last'.client = cli[last'.task]
            /\ \A i \in 1..Len(connections') :
                  connections'[i].client = last'.client => ~connections'[i].inUse
            /\ \A i \in 1..Len(connections) :
                  connections[i].client # last'.client => connections'[i] = connections[i]
            /\ last'.result = IF last'.op = "opRejected" THEN "rejected" ELSE "resolved"
        /\ last'.op = "acquireFailed" =>
            /\ last'.result = "poolTimeout"
            /\ pc'[last'.task] = "idle"
            /\ connections' = connections
      ]_vars

\* C5 witness: an operation was rejected and the slot of its client, still tracked,
\* is idle again.
C5_Witness ==
    /\ last.op = "opRejected"
    /\ \E i \in 1..Len(connections) :
          connections[i].client = last.client /\ ~connections[i].inUse

\* C6: with maxSize = 1 and minSize = 0 (and no shutdown), concurrent acquire()
\* calls leave exactly one tracked connection and at most one caller holds a client.
C6_SingleSlotScenario ==
    (config.maxSize = 1 /\ config.minSize = 0 /\ cleanupInterval) =>
        /\ Len(connections) <= 1
        /\ Cardinality({ t \in Tasks : pc[t] = "holding" }) <= 1

\* C7: an acquire() during all of which the pool is at maxSize with every slot in
\* use ends (unless the exhaustion ends first), it ends by the pool-timeout error
\* and not by returning a client, and no slot's client or inUse flag changes.
C7_ExhaustedAcquireFails ==
    /\ \A t \in Tasks : exh[t] ~> ~exh[t]
    /\ [][ \A t \in Tasks :
             /\ (exh[t] /\ exh'[t]) => Slots(connections') = Slots(connections)
             /\ (exh[t] /\ ~exh'[t] /\ Exhausted(connections')) =>
                   /\ last'.op = "acquireFailed"
                   /\ last'.task = t
                   /\ pc'[t] = "idle"
                   /\ Slots(connections') = Slots(connections)
         ]_vars

\* C7 witness: acquire() has just failed with the pool timeout on a pool that is at
\* maxSize with every slot in use, while the other caller holds a client.
C7_Witness ==
    /\ last.op = "acquireFailed"
    /\ Exhausted(connections)
    /\ config.acquireTimeout > 0
    /\ \E t \in Tasks : pc[t] = "holding"

\* C8: after a failed probe, acquire() hands out no client in that iteration and
\* changes no slot: it goes to sleep.
C8_FailedProbeHandsOutNothing ==
    [][ \A t \in Tasks :
          (pc[t] = "notCreated" /\ pc'[t] # "notCreated") =>
              (pc'[t] = "sleeping" /\ connections' = connections)
      ]_vars

\* C9: a cleanup of a pool of minSize or fewer connections removes nothing, and no
\* step other than shutdown takes a pool of at least minSize connections below
\* minSize.
C9_PoolFloor ==
    [][ /\ (last'.op = "cleanup" /\ Len(connections) <= config.minSize) =>
              connections' = connections
        /\ (Len(connections) >= config.minSize /\ last'.op # "shutdownDone") =>
              Len(connections') >= config.minSize
      ]_vars

\* C9 witness: a cleanup has evicted down to minSize > 0 and stopped there, leaving
\* an idle, expired slot in the pool.
C9_Witness ==
    /\ last.op = "cleanup"
    /\ last.evicted > 0
    /\ config.minSize > 0
    /\ Len(connections) = config.minSize
    /\ \E i \in 1..Len(connections) : IdleExpired(connections[i])

\* C10: every slot a cleanup removes was idle and older than idleTimeout, and its
\* client is closed; a slot in use is left in place and its client is not closed by
\* the cleanup.
C10_EvictionOnlyExpiredIdle ==
    [][ last'.op = "cleanup" =>
          \A i \in 1..Len(connections) :
             /\ connections[i].client \notin Clients(connections') =>
                   /\ ~connections[i].inUse
                   /\ connections[i].age > config.idleTimeout
                   /\ connections[i].client \in closedClients'
             /\ connections[i].inUse =>
                   /\ \E j \in 1..Len(connections') : connections'[j] = connections[i]
                   /\ connections[i].client \in closedClients' =>
                         connections[i].client \in closedClients
      ]_vars

\* C10 witness: a cleanup has evicted a slot while a slot in use, itself older than
\* idleTimeout, stays tracked with its client open.
C10_Witness ==
    /\ last.op = "cleanup"
    /\ last.evicted > 0
    /\ \E i \in 1..Len(connections) :
          /\ connections[i].inUse
          /\ connections[i].age > config.idleTimeout
          /\ connections[i].client \notin closedClients


\* ================================================= claims: ObservableManager

\* C3: from disconnect() until the caller calls connect() again, the socket
\* reference stays null (so isConnected() stays false and no reconnect has opened
\* a socket).
C3_DisconnectTerminal == terminal => (websocket = NoSocket /\ ~isConnected)

\* C4: at most maxReconnectAttempts reconnects are scheduled between two socket
\* opens, and a close event that finds that many scheduled since the latest open
\* schedules nothing and leaves the counter at maxReconnectAttempts.
C4_ReconnectCeiling ==
    [][ /\ sinceOpen' <= maxReconnectAttempts
        /\ (obsLast' = "close" /\ sinceOpen = maxReconnectAttempts) =>
              /\ timers' = timers
              /\ sinceOpen' = sinceOpen
              /\ reconnectAttempts' = maxReconnectAttempts
      ]_vars

\* C4 witness: a socket has just closed after maxReconnectAttempts reconnects were
\* scheduled since the latest open, and no reconnect is pending.
C4_Witness ==
    /\ obsLast = "close"
    /\ sinceOpen = maxReconnectAttempts
    /\ reconnectAttempts = maxReconnectAttempts
    /\ timers = 0
    /\ \A s \in Sockets : sockState[s] \in {"closed", "unused"}


\* ------------------------------------------------------- VaultQueryBuilder claims

\* The builder's own fields: references and the objects behind them.
BuilderFields == <<criteria, criteriaObjs[criteria], paging, pagingObjs[paging],
                   sorting, sortingObjs[sorting], contractStateType>>

\* C11: a VaultQuerySpec returned by build() is not changed by any later call on
\* the same builder: its criteria, paging, sorting (and contract state type) stay
\* what they were when build() returned.
C11_SnapshotImmutable ==
    spec.built => SpecValue(spec, criteriaObjs, pagingObjs, sortingObjs) = atBuild

\* C12: the paging of every built VaultQuerySpec has pageNumber >= 1 and
\* 1 <= pageSize <= 10000.
C12_PageSpecificationInvariant ==
    spec.built =>
        /\ atBuild.paging.pageNumber >= 1
        /\ atBuild.paging.pageSize >= 1
        /\ atBuild.paging.pageSize <= 10000

\* C13: withPaging with pageSize > 10000 throws at the call and leaves every
\* builder field as it was; after withPaging with pageSize in 1..10000, a build()
\* that follows it returns exactly the given pageNumber and pageSize.
C13_WithPagingFailFast ==
    [][ /\ (qLast'.op = "withPaging" /\ qLast'.pageSize > 10000)
            => (qLast'.threw /\ UNCHANGED BuilderFields)
        /\ (qLast.op = "withPaging" /\ qLast.pageSize \in 1..10000
              /\ qLast'.op = "build")
            => atBuild'.paging = [pageNumber |-> qLast.pageNumber,
                                  pageSize |-> qLast.pageSize]
      ]_vars

\* withPaging(2, 10000) was accepted and a later withPaging with a larger page
\* size has thrown, leaving the accepted paging in place.
C13_Witness ==
    /\ qLast.op = "withPaging"
    /\ qLast.threw
    /\ pagingObjs[paging] = [pageNumber |-> 2, pageSize |-> 10000]


\* ------------------------------------------------ ObservableManager event claims

\* getActiveSubscriptions(), lines 244-246.
getActiveSubscriptions == subscriptions

\* What a frame leaves alone: the subscriptions, the socket and the counter.
ManagerState == <<subscriptions, configs, observers, websocket, sockState,
                  reconnectAttempts, timers, stopped, nSubs>>

\* C14: a frame that fails to parse invokes no callback and leaves the
\* subscriptions, the socket reference and the reconnect counter unchanged, and
\* a well-formed frame that follows it is delivered to every subscription whose
\* filters it passes (all streams being live when the damaged frame arrives).
C14_MalformedFrameDropped ==
    [][ /\ (obsLast' = "message" /\ ~out'.frame.ok)
            => (out'.invoked = {} /\ UNCHANGED ManagerState)
        /\ (obsLast = "message" /\ ~out.frame.ok /\ ~stopped
              /\ observers = getActiveSubscriptions
              /\ obsLast' = "message" /\ out'.frame.ok /\ out'.frame.shape = "event")
            => out'.invoked =
                 { id \in getActiveSubscriptions : Matches(configs[id], out'.frame) }
      ]_vars

\* A damaged frame arrived whose event would have passed a subscription's filters.
C14_Witness ==
    /\ obsLast = "message"
    /\ ~out.frame.ok
    /\ \E id \in observers :
          configs[id].type = out.frame.type /\ configs[id].contractStateType = Undefined

\* C15: a callback is invoked only for an event of exactly its config.type and,
\* when config.contractStateType is set and the event is a VAULT_UPDATE, only if
\* one of the event's states has that contract; for any other event type the
\* contractStateType setting filters nothing.
C15_SubscriptionFiltering ==
    obsLast = "message" =>
        /\ \A id \in out.invoked :
              /\ configs[id].type = out.frame.type
              /\ (configs[id].contractStateType # Undefined
                    /\ out.frame.type = "VAULT_UPDATE")
                   => \E c \in out.frame.contracts :
                         configs[id].contractStateType = Some(c)
        /\ (out.frame.ok /\ ~stopped /\ out.frame.type # "VAULT_UPDATE")
             => \A id \in getActiveSubscriptions \cap observers :
                   configs[id].type = out.frame.type => id \in out.invoked

\* A vault update whose states are all of contract Y arrived while a subscription
\* filtered to contract X was attached, and its callback was not invoked.
C15_Witness ==
    /\ obsLast = "message"
    /\ out.frame = [ok |-> TRUE, shape |-> "event", type |-> "VAULT_UPDATE",
                    contracts |-> {"Y"}]
    /\ \E id \in observers \ out.invoked :
          configs[id] = [type |-> "VAULT_UPDATE", contractStateType |-> Some("X")]

\* C16: every subscribe() call sends a "subscribe" control frame, whatever the
\* order of subscribe() and connect().
C16_SubscribeSendsControlFrame == obsLast = "subscribe" => out.sent

\* C17: after disconnect(), a new connect() and a new subscribe(), an event that
\* arrives on the manager's socket and passes the new subscription's filters is
\* delivered to its callback.
C17_ResumeAfterDisconnect ==
    (stopped /\ obsLast = "message" /\ out.frame.ok /\ out.socket = websocket)
      => \A id \in getActiveSubscriptions :
            Matches(configs[id], out.frame) => id \in out.invoked

\* C18: at most one socket created by the manager is open and feeding events into
\* the event stream.
C18_SingleSocket == Cardinality({ s \in Sockets : sockState[s] = "open" }) <= 1

\* C19: unsubscribe(id) on an active id removes exactly that subscription, so
\* that its callback is not invoked again while every other subscription whose
\* stream is live still receives its matching events; on an unknown id it changes nothing; after
\* unsubscribeAll() no subscription is active and no callback is attached.
C19_UnsubscribeExact ==
    [][ /\ (obsLast' = "unsubscribe" /\ out'.id \in getActiveSubscriptions)
            => /\ subscriptions' = subscriptions \ {out'.id}
               /\ observers' = observers \ {out'.id}
               /\ \A other \in subscriptions \ {out'.id} :
                     configs'[other] = configs[other]
        /\ (obsLast' = "unsubscribe" /\ out'.id \notin getActiveSubscriptions)
            => UNCHANGED ManagerState
        /\ (obsLast' = "unsubscribeAll")
            => (subscriptions' = {} /\ observers' = {})
        /\ (obsLast' = "message")
            => out'.invoked \subseteq getActiveSubscriptions
        /\ (obsLast' = "message" /\ out'.frame.ok /\ out'.frame.shape = "event"
              /\ ~stopped)
            => \A id \in getActiveSubscriptions \cap observers :
                  Matches(configs[id], out'.frame) => id \in out'.invoked
      ]_vars

\* Subscription 1 has been removed, and an event was then delivered to
\* subscription 2 alone.
C19_Witness ==
    /\ obsLast = "message"
    /\ nSubs = 2
    /\ getActiveSubscriptions = {2}
    /\ out.invoked = {2}


\* ------------------------------------------------------------- shutdown claim

\* What shutdown() can touch.
PoolState == <<connections, cleanupInterval, closedClients>>

\* C20: when shutdown() completes the eviction timer is stopped, close() has been
\* called on the client of every connection that was tracked, and the pool tracks
\* no connection; a second shutdown() on the pool it left changes nothing.
C20_Shutdown ==
    [][ /\ (last'.op = "shutdown")
            => (~cleanupInterval' /\ Clients(connections) \subseteq closedClients')
        /\ (last'.op = "shutdownDone")
            => /\ ~cleanupInterval'
               /\ Clients(connections) \subseteq closedClients'
               /\ connections' = <<>>
        /\ (last'.op \in {"shutdown", "shutdownDone"}
              /\ connections = <<>> /\ ~cleanupInterval)
            => UNCHANGED PoolState
      ]_vars

\* shutdown() has completed, and it closed the client a caller still holds.
C20_Witness ==
    /\ last.op = "shutdownDone"
    /\ connections = <<>>
    /\ ~cleanupInterval
    /\ \E t \in Tasks : pc[t] = "holding" /\ cli[t] \in closedClients


\* ---------------------------------------------------------- CordaRpcClient claims

C22_ConnectedIsLastProbe == connected = probed


\* ------------------------------------------------- VaultQueryBuilder call claims

\* What the builder's fields hold, read through their references.
BuilderValue ==
    [criteria |-> criteriaObjs[criteria], paging |-> pagingObjs[paging],
     sorting |-> sortingObjs[sorting], contractStateType |-> contractStateType]

\* What build() returns for the builder's present fields.
BuildOutput ==
    [criteria |-> BuilderValue.criteria, paging |-> BuilderValue.paging,
     sorting |-> IF BuilderValue.sorting = <<>> THEN Undefined
                 ELSE Some(BuilderValue.sorting),
     contractStateType |-> BuilderValue.contractStateType]

\* C23: after reset() the builder is as freshly constructed (empty criteria,
\* page 1 of size 200, no sorting, no contractStateType), whatever was chained
\* before and however often reset() is called, and a build() that follows
\* returns what a new builder's build() returns.
C23_ResetEquivalence ==
    [][ /\ (qLast'.op = "reset")
            => BuilderValue' =
                 [criteria |-> EmptyCriteria,
                  paging |-> [pageNumber |-> 1, pageSize |-> 200],
                  sorting |-> <<>>, contractStateType |-> Undefined]
        /\ (qLast.op = "reset" /\ qLast'.op = "build")
            => atBuild' =
                 [criteria |-> EmptyCriteria,
                  paging |-> [pageNumber |-> 1, pageSize |-> 200],
                  sorting |-> Undefined, contractStateType |-> Undefined]
      ]_vars

\* reset() has been called on a builder from which a spec with a status and a
\* sort column had been built.
C23_Witness ==
    /\ qLast.op = "reset"
    /\ spec.built
    /\ atBuild.criteria.status # Undefined
    /\ atBuild.sorting # Undefined
    /\ BuilderValue.criteria = EmptyCriteria
    /\ BuilderValue.sorting = <<>>

\* The criteria field each with* mutator writes.
FieldOf ==
    [withStatus |-> "status", withContractStateTypes |-> "contractStateTypes",
     withStateRefs |-> "stateRefs", withNotary |-> "notary",
     withParticipants |-> "participants", withExternalIds |-> "externalIds",
     withRelevancyStatus |-> "relevancyStatus",
     withSoftLocking |-> "softLockingCondition"]

\* C24: each with* mutator sets its own criteria field to its argument and
\* leaves every other criteria field, the paging, the sorting and the contract
\* state type as they were; build() returns the builder's fields.
C24_MutatorsReplaceOwnField ==
    [][ /\ \A op \in DOMAIN FieldOf :
              (qLast'.op = op)
                => BuilderValue' =
                     [BuilderValue EXCEPT
                        !.criteria = [@ EXCEPT ![FieldOf[op]] = Some(qArg')]]
        /\ (qLast'.op = "build") => (atBuild' = BuildOutput /\ UNCHANGED BuilderValue)
      ]_vars

\* The chain withStatus('UNCONSUMED').withContractStateTypes(['X'])
\* .withPaging(2, 50).orderBy('recordedTime', 'DESC').build() has run.
C24_Witness ==
    /\ qLast.op = "build"
    /\ qCalls = 5
    /\ atBuild =
         [criteria |-> [EmptyCriteria EXCEPT !.status = Some("UNCONSUMED"),
                                             !.contractStateTypes = Some(<<"X">>)],
          paging |-> [pageNumber |-> 2, pageSize |-> 50],
          sorting |-> Some(<<[sortAttribute |-> "recordedTime",
                              direction |-> "DESC"]>>),
          contractStateType |-> Undefined]

TimeOps == {"recordedAfter", "recordedBefore", "recordedBetween", "withTimeCondition"}

\* The time condition a call is to leave behind.
ExpectedTimeCondition(op, arg) ==
    CASE op = "recordedAfter" ->
           [type |-> "RECORDED",
            predicate |-> [operator |-> "GREATER_THAN", value |-> arg]]
      [] op = "recordedBefore" ->
           [type |-> "RECORDED",
            predicate |-> [operator |-> "LESS_THAN", value |-> arg]]
      [] op = "recordedBetween" ->
           [type |-> "RECORDED",
            predicate |-> [operator |-> "BETWEEN", from |-> arg[1], to |-> arg[2]]]
      [] OTHER -> arg

\* C25: the criteria carry one timeCondition, the one set by the latest of
\* recordedAfter / recordedBefore / recordedBetween / withTimeCondition, with
\* nothing left of an earlier one, and build() returns it.
C25_TimeConditionLastWins ==
    [][ /\ (qLast'.op \in TimeOps)
            => BuilderValue'.criteria.timeCondition =
                 Some(ExpectedTimeCondition(qLast'.op, qArg'))
        /\ (qLast'.op \notin TimeOps \cup {"reset"})
            => BuilderValue'.criteria.timeCondition =
                 BuilderValue.criteria.timeCondition
        /\ (qLast'.op = "build")
            => atBuild'.criteria.timeCondition = BuilderValue.criteria.timeCondition
      ]_vars

\* recordedBetween('t2', 't1') was called on a builder that had built a spec
\* with the condition of recordedAfter('t1').
C25_Witness ==
    /\ qLast.op = "recordedBetween"
    /\ spec.built
    /\ atBuild.criteria.timeCondition =
         Some(ExpectedTimeCondition("recordedAfter", "t1"))
    /\ BuilderValue.criteria.timeCondition =
         Some(ExpectedTimeCondition("recordedBetween", <<"t2", "t1">>))

\* C26: orderBy appends its (attribute, direction) pair, direction being ASC
\* when omitted, and keeps earlier entries of the same attribute; only orderBy
\* and reset() change the sort columns; build() returns them in call order, and
\* no sorting field at all when there are none.
C26_OrderByAppends ==
    [][ /\ (qLast'.op = "orderBy")
            => BuilderValue'.sorting =
                 Append(BuilderValue.sorting,
                        [sortAttribute |-> qArg'[1],
                         direction |-> IF qArg'[2] = Undefined THEN "ASC"
                                       ELSE qArg'[2][1]])
        /\ (qLast'.op \notin {"orderBy", "reset"})
            => BuilderValue'.sorting = BuilderValue.sorting
        /\ (qLast'.op = "reset") => BuilderValue'.sorting = <<>>
        /\ (qLast'.op = "build")
            => atBuild'.sorting = IF BuilderValue.sorting = <<>> THEN Undefined
                                  ELSE Some(BuilderValue.sorting)
      ]_vars

\* orderBy('recordedTime', 'DESC').orderBy('recordedTime').build() has run.
C26_Witness ==
    /\ qLast.op = "build"
    /\ atBuild.sorting =
         Some(<<[sortAttribute |-> "recordedTime", direction |-> "DESC"],
                [sortAttribute |-> "recordedTime", direction |-> "ASC"]>>)


\* ------------------------------------------------------------ reconnect reset

\* C27: a socket open resets the reconnect counter to 0, so every close that
\* follows fewer than maxReconnectAttempts reconnects since the latest open
\* schedules another one.
C27_OpenResetsCounter ==
    [][ /\ (obsLast' = "open") => reconnectAttempts' = 0
        /\ (obsLast' = "close" /\ sinceOpen < maxReconnectAttempts)
            => (timers' = timers + 1 /\ reconnectAttempts' = reconnectAttempts + 1)
      ]_vars

\* The first socket failed, its reconnect opened, and the close of the second
\* socket found the counter reset: it counts 1 again, not 2.
C27_Witness ==
    /\ obsLast = "close"
    /\ connects = 1
    /\ Created = 2
    /\ \A s \in 1..2 : sockState[s] = "closed"
    /\ reconnectAttempts = 1
    /\ timers = 1

\* ------------------------------------------------------------- release claim

\* C29: release() of a client the pool does not track leaves the connection list
\* and every slot as they are; release() of a tracked client sets that slot's
\* inUse to false and its lastUsed to now, and changes no other slot.
C29_ReleaseFrame ==
    [][ (last'.op = "released") =>
          /\ Len(connections') = Len(connections)
          /\ \A i \in 1..Len(connections) :
                connections'[i] =
                  IF connections[i].client = last'.client
                  THEN [client |-> last'.client, inUse |-> FALSE, age |-> 0]
                  ELSE connections[i]
      ]_vars

\* A caller released a client that a shutdown had closed and dropped, while the
\* pool tracks a connection created since, which is still in use.
C29_Witness ==
    /\ last.op = "released"
    /\ last.task # 0
    /\ last.client \in closedClients
    /\ last.client \notin Clients(connections)
    /\ \E i \in 1..Len(connections) : connections[i].inUse


\* ------------------------------------------------------------- event ordering

\* C28: every callback invocation passes an event of a frame that was received;
\* the invocations follow the arrival order of their frames, so that a frame has
\* gone to all its subscribers before the next frame goes to any; and no
\* subscription is given the same frame twice.
C28_EventOrdering ==
    /\ \A i \in 1..Len(calls) :
          /\ calls[i][2] \in 1..Len(arrived)
          /\ arrived[calls[i][2]].ok
          /\ arrived[calls[i][2]].type \in EventTypes
    /\ \A i, j \in 1..Len(calls) :
          i < j => /\ calls[i][2] <= calls[j][2]
                   /\ (calls[i][1] = calls[j][1]) => calls[i][2] < calls[j][2]

\* Two frames arrived; the first went to subscriptions 1 and 2, the second to
\* subscription 1 only.
C28_Witness ==
    /\ Len(arrived) = 2
    /\ calls = << <<1, 1>>, <<2, 1>>, <<1, 2>> >>


\* ---------------------------------------------------------- criteria compiler

\* C30: the object returned by toRpcQueryCriteria has status, contractStateTypes,
\* stateRefs, notary, relevancyStatus, constraintTypes, constraints and
\* participants, each with the criteria's value when it is set and its default
\* otherwise (UNCONSUMED, ALL, the empty list); softLockingCondition and
\* timeCondition are the criteria's, set or not; and the argument is never
\* changed.
C30_CompiledCriteria ==
    /\ [](rpcOut # Undefined =>
            LET o == rpcOut[1]
                c == rpcIn.criteria
                IsSet(f) == c # Undefined /\ c[1][f] # Undefined
                Lists == {"contractStateTypes", "stateRefs", "notary",
                          "constraintTypes", "constraints", "participants"}
            IN /\ Lists \cup {"status", "relevancyStatus"} \subseteq DOMAIN o
               /\ \A f \in Lists : o[f] = IF IsSet(f) THEN c[1][f][1] ELSE <<>>
               /\ o.status = IF IsSet("status") THEN c[1].status[1] ELSE "UNCONSUMED"
               /\ o.relevancyStatus =
                      IF IsSet("relevancyStatus") THEN c[1].relevancyStatus[1] ELSE "ALL"
               /\ \A f \in {"softLockingCondition", "timeCondition"} :
                      o[f] = IF c = Undefined THEN Undefined ELSE c[1][f])
    /\ [][rpcIn' = rpcIn]_vars

\* A call returned for criteria with a status and a notary list but no relevancy
\* status and no participants.
C30_Witness ==
    /\ rpcOut # Undefined
    /\ rpcIn.criteria # Undefined
    /\ rpcIn.criteria[1].status = Some("CONSUMED")
    /\ rpcIn.criteria[1].notary = Some(<<"X">>)
    /\ rpcIn.criteria[1].relevancyStatus = Undefined
    /\ rpcIn.criteria[1].participants = Undefined
    /\ rpcOut[1].status = "CONSUMED"
    /\ rpcOut[1].relevancyStatus = "ALL"


\* ------------------------------------------------- frames that are not events

\* C31: a frame that parses but is not shaped as an event detaches no
\* subscription: every callback attached before the frame is attached after it.
C31_UnshapedFrameDetachesNothing ==
    [][ (obsLast' = "message" /\ out'.frame.ok /\ out'.frame.shape # "event")
          => observers' = observers ]_vars


\* ------------------------------------------------ shutdown() during acquire()

\* C32: when shutdown() was called while an acquire() was suspended, then at the
\* step that finishes the later of the two the pool tracks no connection and the
\* client the acquire() handed out, if any, is one the pool tracks.
C32_ShutdownDuringAcquire ==
    [][ /\ last'.op = "shutdownDone"
            => \A t \in Tasks :
                  (raced[t] /\ pc[t] = "holding") => cli[t] \in Clients(connections')
        /\ \A t \in Tasks :
              (raced[t] /\ InAcquire(pc[t]) /\ ~InAcquire(pc'[t]) /\ shutdownPc' = "none")
                => /\ connections' = <<>>
                   /\ pc'[t] = "holding" => cli'[t] \in Clients(connections')
      ]_vars


\* ------------------------------------------------ subscriptions and reconnects

\* C33: a socket close, the reconnect it schedules and the open of the new socket
\* leave the subscriptions and their callbacks as they are, and an event that
\* arrives afterwards goes to every live subscription that has been through a
\* close and whose filters it passes.
C33_SubscriptionsSurviveReconnect ==
    [][ /\ (obsLast' \in {"close", "reconnect", "open"})
            => UNCHANGED <<subscriptions, configs, observers>>
        /\ (obsLast' = "message" /\ out'.frame.ok /\ out'.frame.shape = "event"
              /\ ~stopped)
            => \A id \in survived \cap observers :
                  Matches(configs[id], out'.frame) => id \in out'.invoked
      ]_vars

\* After one connect(), an event arrived on the socket the reconnect timer made
\* and went to a subscription that was attached when the first socket closed.
C33_Witness ==
    /\ obsLast = "message"
    /\ connects = 1
    /\ Created = 2
    /\ out.socket = 2
    /\ survived \cap out.invoked # {}


\* ------------------------------------------------------ acquire() of an idle slot

\* C34: an acquire() called while a tracked slot is idle returns the client of an
\* idle slot in the same step, with the slot marked in use and its lastUsed set
\* to now, and the connection list as long as before, whatever acquireTimeout is.
C34_IdleSlotAtOnce ==
    [][ \A t \in Tasks :
          ( /\ pc[t] = "idle"
            /\ last'.task = t
            /\ last'.op \in {"acquired", "acquireFailed", "probe", "sleep"}
            /\ \E i \in 1..Len(connections) : ~connections[i].inUse )
          => /\ last'.op = "acquired"
             /\ Len(connections') = Len(connections)
             /\ \E i \in 1..Len(connections) :
                   /\ ~connections[i].inUse
                   /\ connections'[i] = [client |-> last'.client, inUse |-> TRUE,
                                          age |-> 0]
      ]_vars


\* ------------------------------------------------------- rejected connect()

\* C35: when the handshake of a socket made by a connect() call fails, no
\* reconnect is scheduled: the number of pending reconnect timers stays as it is.
\* (While every socket so far was made by a connect() call, the socket is one.)
C35_RejectedConnectQuiescent ==
    [][ \A s \in Sockets :
          ( /\ Created = connects
            /\ sockState[s] = "connecting"
            /\ sockState'[s] = "closed" )
          => timers' = timers
      ]_vars


\* ------------------------------------------------------------ trigger filter

\* C36: a vault update of the selected kind (a produced state for State Produced,
\* a consumed state for State Consumed, any for State Updated) is emitted when
\* no Contract State Type is configured, and when one is configured and one of
\* the event's produced or consumed states has that contract.
C36_TriggerEmitsMatching ==
    trigOut # "none" =>
        LET p == trigIn.params
            d == trigIn.data
            kind == /\ (p.vaultEvent = "stateProduced" => d.produced # {})
                    /\ (p.vaultEvent = "stateConsumed" => d.consumed # {})
            contract == \/ p.contractStateType = ""
                        \/ p.contractStateType \in d.produced \cup d.consumed
        IN (kind /\ contract) => trigOut = "emitted"

\* ------------------------------------------------------- StateRef validation

\* C37: parseStateRef throws exactly for the strings that are not of the form
\* '<hex hash>:<non-negative integer>' (hexadecimal characters, one colon, decimal
\* digits, and nothing else), isValidStateRef is true exactly when parseStateRef
\* does not throw, and a StateRef that parseStateRef returned comes back from its
\* own string.
C37_StateRefValidation ==
    LET ExactStateRef ==
            \E p \in 2..(Len(srIn) - 1) :
                /\ srIn[p] = ":"
                /\ \A i \in 1..(p - 1) : srIn[i] \in HexChars
                /\ \A i \in (p + 1)..Len(srIn) : IsDigit(srIn[i])
    IN srOut.done =>
        /\ srOut.threw <=> ~ExactStateRef
        /\ srOut.valid <=> ~srOut.threw
        /\ ~srOut.threw => srOut.back = [threw |-> FALSE, ref |-> srOut.ref]

====
